---- MODULE Spec2Model ----
(***************************************************************************)
(* A model of the pajamax per-connection protocol engine.                  *)
(*                                                                         *)
(*   Spec          Local mode: connection.rs `handle` (handshake, read     *)
(*                 loop, frame dispatch, route cache, stream slots) with   *)
(*                 response_end.rs (build / update / flush) and the        *)
(*                 http2.rs frame codec, on a byte-accurate input buffer.  *)
(*   SpecDispatch  Dispatch mode: dispatch_server.rs (handle_call,         *)
(*                 DispatchRequest::handle, response_routine) as an input  *)
(*                 thread, worker threads and an output thread joined by   *)
(*                 bounded channels.                                       *)
(***************************************************************************)
EXTENDS Integers, Sequences, FiniteSets, TLC

(***************************************************************************)
(* Bounds of the model (configuration values and sizes of the inputs).     *)
(***************************************************************************)
\* config.max_frame_size: the size of the input buffer, in bytes
max_frame_size == 30
\* config.max_flush_requests
max_flush_requests == 2
\* config.max_flush_size, in bytes
max_flush_size == 75
\* number of frames the client sends after the preface
MaxFrames == 3

(***************************************************************************)
(* Bytes and big-endian integers (http2.rs).                               *)
(***************************************************************************)
Drop(s, n) == SubSeq(s, n + 1, Len(s))

Take(s, n) == SubSeq(s, 1, n)

NoneV == <<>>

Some(x) == <<x>>

\* a u32 with bit 31 set is held as the negative integer with the same 32 bits
\* (the value minus 2^32); build_u32 gives the bytes of either
parse_u32(buf) ==
    (IF buf[1] >= 128 THEN buf[1] - 256 ELSE buf[1]) * 16777216
        + buf[2] * 65536 + buf[3] * 256 + buf[4]

build_u32(n) ==
    << (n \div 16777216) % 256, (n \div 65536) % 256, (n \div 256) % 256, n % 256 >>

\* Frame::HEAD_SIZE
HEAD_SIZE == 9

\* FrameKind discriminants
KindData == 0

KindHeaders == 1

KindSettings == 4

KindPriority == 2

KindReset == 3

KindPushPromise == 5

KindPing == 6

KindGoAway == 7

KindWindowUpdate == 8

KindContinuation == 9

\* a reading of the type byte that takes CONTINUATION for HEADERS
FrameKind_from_joined(byte) == IF byte = 9 THEN 1 ELSE IF byte <= 9 THEN byte ELSE 10

\* FrameKind::from: bytes above 9 are FrameKind::Unknown (10 as a discriminant)
FrameKind_from(byte) == IF byte <= 9 THEN byte ELSE 10

\* HeadFlags bits
END_STREAM == 1

END_HEADERS == 4

PADDED == 8

PRIORITY == 32

HasFlag(flags, bit) == (flags \div bit) % 2 = 1

\* a header with the type and the flags bytes in each other's place
build_head_swapped(len, kind, flags, stream_id) ==
    << (len \div 65536) % 256, (len \div 256) % 256, len % 256, flags, kind >>
        \o build_u32(stream_id)

\* Frame::build_head: the 9 bytes of a frame header
build_head(len, kind, flags, stream_id) ==
    << (len \div 65536) % 256, (len \div 256) % 256, len % 256, kind, flags >>
        \o build_u32(stream_id)

\* Frame::parse: NoneV when buf holds no complete frame
Frame_parse(buf) ==
    IF Len(buf) < HEAD_SIZE THEN NoneV
    ELSE LET len == buf[1] * 65536 + buf[2] * 256 + buf[3]
         IN  IF Len(buf) - HEAD_SIZE < len THEN NoneV
             ELSE Some([ len       |-> len,
                         kind      |-> FrameKind_from(buf[4]),
                         flags     |-> buf[5],
                         stream_id |-> parse_u32(SubSeq(buf, 6, 9)),
                         payload   |-> SubSeq(buf, HEAD_SIZE + 1, HEAD_SIZE + len) ])

OkBuf(b) == [ok |-> TRUE, buf |-> b, err |-> ""]

ErrBuf(e) == [ok |-> FALSE, buf |-> <<>>, err |-> e]

\* Frame::skip_padded
skip_padded(flags, buf) ==
    IF HasFlag(flags, PADDED)
    THEN IF Len(buf) < 1 THEN ErrBuf("invalid padded")
         ELSE IF Len(buf) <= 1 + buf[1] THEN ErrBuf("invalid padded")
         ELSE OkBuf(SubSeq(buf, 2, Len(buf) - buf[1]))
    ELSE OkBuf(buf)

\* Frame::skip_priority
skip_priority(flags, buf) ==
    IF HasFlag(flags, PRIORITY)
    THEN IF Len(buf) < 5 THEN ErrBuf("invalid priority") ELSE OkBuf(Drop(buf, 5))
    ELSE OkBuf(buf)

\* a check of the flags that lets END_STREAM pass
process_headers_lenient(frame) ==
    IF ~HasFlag(frame.flags, END_HEADERS) THEN ErrBuf("multiple HEADERS frames")
    ELSE LET h == skip_padded(frame.flags, frame.payload)
         IN  IF ~h.ok THEN h ELSE skip_priority(frame.flags, h.buf)

\* Frame::process_headers
process_headers(frame) ==
    IF ~HasFlag(frame.flags, END_HEADERS) THEN ErrBuf("multiple HEADERS frames")
    ELSE IF HasFlag(frame.flags, END_STREAM) THEN ErrBuf("HEADERS frame with no DATA")
    ELSE LET h == skip_padded(frame.flags, frame.payload)
         IN  IF ~h.ok THEN h ELSE skip_priority(frame.flags, h.buf)

\* a DATA payload taken with its padding
process_data_raw(frame) == OkBuf(frame.payload)

\* Frame::process_data
process_data(frame) == skip_padded(frame.flags, frame.payload)

(***************************************************************************)
(* Huffman codec for HPACK string literals, on the symbols the model's     *)
(* header blocks use and two with longer codes, '&' and '?' (RFC 7541      *)
(* Appendix B).                                                            *)
(***************************************************************************)
HuffSyms == {38, 47, 58, 63, 97, 98, 104, 112, 116}

HuffCode(sym) ==
    CASE sym = 38  -> <<1, 1, 1, 1, 1, 0, 0, 0>>
      [] sym = 47  -> <<0, 1, 1, 0, 0, 0>>
      [] sym = 58  -> <<1, 0, 1, 1, 1, 0, 0>>
      [] sym = 63  -> <<1, 1, 1, 1, 1, 1, 1, 1, 0, 0>>
      [] sym = 97  -> <<0, 0, 0, 1, 1>>
      [] sym = 98  -> <<1, 0, 0, 0, 1, 1>>
      [] sym = 104 -> <<1, 0, 0, 1, 1, 1>>
      [] sym = 112 -> <<1, 0, 1, 0, 1, 1>>
      [] sym = 116 -> <<0, 1, 0, 0, 1>>

ByteBits(b) == [i \in 1..8 |-> (b \div (2 ^ (8 - i))) % 2]

RECURSIVE BitsOf(_)
BitsOf(src) == IF src = <<>> THEN <<>> ELSE ByteBits(src[1]) \o BitsOf(Tail(src))

IsPrefix(p, s) == Len(p) <= Len(s) /\ SubSeq(s, 1, Len(p)) = p

\* huffman::decode: the symbols of the code words; what is left after the last
\* code word must be fewer than 8 bits, all ones (the prefix of EOS)
RECURSIVE huff_loop(_, _)
huff_loop(bits, out) ==
    IF bits = <<>> THEN [ok |-> TRUE, out |-> out]
    ELSE IF \E sym \in HuffSyms : IsPrefix(HuffCode(sym), bits)
    THEN LET sym == CHOOSE x \in HuffSyms : IsPrefix(HuffCode(x), bits)
         IN  huff_loop(Drop(bits, Len(HuffCode(sym))), Append(out, sym))
    ELSE IF Len(bits) < 8 /\ \A i \in 1..Len(bits) : bits[i] = 1
    THEN [ok |-> TRUE, out |-> out]
    ELSE [ok |-> FALSE, out |-> <<>>]

huffman_decode(src) == huff_loop(BitsOf(src), <<>>)

\* huffman::encode(":path")
HuffPathName == <<185, 88, 211, 63>>

\* b":path"
PlainPathName == <<58, 112, 97, 116, 104>>

(***************************************************************************)
(* HPACK path decoder (hpack_decoder.rs).                                  *)
(***************************************************************************)
\* decode_int: MAX_BYTES
MAX_BYTES == 5

IntOk(v, adv) == [ok |-> TRUE, val |-> v, adv |-> adv, err |-> ""]

IntErr(e) == [ok |-> FALSE, val |-> 0, adv |-> 0, err |-> e]

\* the continuation loop of decode_int: `while !buf.is_empty()` never ends on
\* its own, so reading buf[bytes] past the end of buf is an index panic
RECURSIVE decode_int_loop(_, _, _, _)
decode_int_loop(buf, ret, bytes, shift) ==
    IF bytes >= Len(buf) THEN IntErr("panic")
    ELSE LET b    == buf[bytes + 1]
             ret2 == ret + (b % 128) * (2 ^ shift)
         IN  IF b < 128 THEN IntOk(ret2, bytes + 1)
             ELSE IF bytes + 1 = MAX_BYTES THEN IntErr("integer overflow")
             ELSE decode_int_loop(buf, ret2, bytes + 1, shift + 7)

decode_int(buf, prefix_size) ==
    IF prefix_size < 1 \/ prefix_size > 8 THEN IntErr("invalid integer")
    ELSE IF buf = <<>> THEN IntErr("need more")
    ELSE LET mask == (2 ^ prefix_size) - 1
             ret  == buf[1] % (2 ^ prefix_size)
         IN  IF ret < mask THEN IntOk(ret, 1) ELSE decode_int_loop(buf, ret, 1, 0)

StrOk(huff, msg, adv) == [ok |-> TRUE, huff |-> huff, msg |-> msg, adv |-> adv, err |-> ""]

StrErr(e) == [ok |-> FALSE, huff |-> FALSE, msg |-> <<>>, adv |-> 0, err |-> e]

\* decode_string, once its length prefix n is decoded
decode_string_len(buf, n) ==
    IF ~n.ok THEN StrErr(n.err)
    ELSE IF n.val > Len(buf) - n.adv THEN StrErr("need more")
    ELSE StrOk(buf[1] >= 128, SubSeq(buf, n.adv + 1, n.adv + n.val), n.adv + n.val)

decode_string(buf) ==
    IF buf = <<>> THEN StrErr("need more") ELSE decode_string_len(buf, decode_int(buf, 7))

\* OutStr::eq_str(":path")
eq_str_path(str) ==
    IF str.huff
    THEN IF Len(str.msg) > Len(PlainPathName) THEN FALSE ELSE str.msg = HuffPathName
    ELSE str.msg = PlainPathName

\* path is NoneV or Some(OutStr)
LitOk(path, adv) == [ok |-> TRUE, path |-> path, adv |-> adv, err |-> ""]

LitErr(e) == [ok |-> FALSE, path |-> NoneV, adv |-> 0, err |-> e]

\* decode_literal_path, table_idx == 0: the value after the name
literal_value(index_adv, name, value) ==
    IF ~value.ok THEN LitErr(value.err)
    ELSE IF eq_str_path(name) THEN LitOk(Some(value), index_adv + name.adv + value.adv)
    ELSE LitOk(NoneV, index_adv + name.adv + value.adv)

\* decode_literal_path, table_idx == 0: the name, then the value
literal_name(buf, index_adv, name) ==
    IF ~name.ok THEN LitErr(name.err)
    ELSE literal_value(index_adv, name, decode_string(Drop(buf, name.adv)))

\* decode_literal_path, table_idx != 0: the value only
literal_indexed_name(t, value) ==
    IF ~value.ok THEN LitErr(value.err)
    ELSE IF t.val = 4 \/ t.val = 5 THEN LitOk(Some(value), t.adv + value.adv)
    ELSE LitOk(NoneV, t.adv + value.adv)

\* decode_literal_path, once the table index t is decoded
literal_path_at(buf, t) ==
    IF ~t.ok THEN LitErr(t.err)
    ELSE IF t.val = 0 THEN literal_name(Drop(buf, t.adv), t.adv, decode_string(Drop(buf, t.adv)))
    ELSE literal_indexed_name(t, decode_string(Drop(buf, t.adv)))

decode_literal_path(buf, index) == literal_path_at(buf, decode_int(buf, IF index THEN 6 ELSE 4))

\* Representation::load
Representation_load(byte) ==
    IF byte \div 128 = 1 THEN "Indexed"
    ELSE IF (byte \div 64) % 2 = 1 THEN "LiteralWithIndexing"
    ELSE IF byte \div 16 = 0 THEN "LiteralWithoutIndexing"
    ELSE IF byte \div 16 = 1 THEN "LiteralNeverIndexed"
    ELSE IF byte \div 32 = 1 THEN "SizeUpdate"
    ELSE "Invalid"

\* Decoder::new
Decoder_new ==
    [ next_cache_index |-> 0,
      dynamic_table    |-> <<>>,
      huffman_paths    |-> <<>>,
      plain_paths      |-> <<>> ]

\* a HashMap<Vec<u8>, usize> as a sequence of <<key, value>> pairs without
\* repeated keys
MapHas(m, k) == \E i \in 1..Len(m) : m[i][1] = k

MapGet(m, k) == m[CHOOSE i \in 1..Len(m) : m[i][1] = k][2]

MapInsert(m, k, v) == Append(m, <<k, v>>)

PathErr(e) == [tag |-> "Err", err |-> e]

Cached(i) == [tag |-> "Cached", cached |-> i]

Plain(path) == [tag |-> "Plain", path |-> path]

FieldOk(dec, fp, adv) == [ok |-> TRUE, dec |-> dec, fp |-> fp, adv |-> adv, err |-> ""]

FieldErr(dec, e) == [ok |-> FALSE, dec |-> dec, fp |-> PathErr(e), adv |-> 0, err |-> e]

\* Decoder::find_path, the Indexed arm, once the index n is decoded
indexed_at(dec, fp, n) ==
    IF ~n.ok THEN FieldErr(dec, n.err)
    ELSE IF n.val > 61
    THEN IF n.val > 61 + Len(dec.dynamic_table)
         THEN FieldErr(dec, "invalid dynamic table index")
         ELSE IF dec.dynamic_table[61 + Len(dec.dynamic_table) - n.val + 1] # NoneV
         THEN FieldOk(dec, Cached(dec.dynamic_table[61 + Len(dec.dynamic_table) - n.val + 1][1]),
                      n.adv)
         ELSE FieldOk(dec, fp, n.adv)
    ELSE FieldOk(dec, fp, n.adv)

field_indexed(dec, buf, fp) == indexed_at(dec, fp, decode_int(buf, 7))

\* the path of a literal with indexing, Huffman-decoded: the caller's route
\* cache and the dynamic table each get a new entry
indexing_path(dec, str, hd, adv) ==
    IF str.huff /\ ~hd.ok THEN FieldErr(dec, "InvalidHuffman")
    ELSE FieldOk([dec EXCEPT !.next_cache_index = @ + 1,
                             !.dynamic_table = Append(@, Some(dec.next_cache_index))],
                 Plain(IF str.huff THEN hd.out ELSE str.msg),
                 adv)

\* Decoder::find_path, the LiteralWithIndexing arm, once the literal is decoded
indexing_at(dec, fp, lit) ==
    IF ~lit.ok THEN FieldErr(dec, lit.err)
    ELSE IF lit.path # NoneV
    THEN indexing_path(dec, lit.path[1], huffman_decode(lit.path[1].msg), lit.adv)
    ELSE FieldOk([dec EXCEPT !.dynamic_table = Append(@, NoneV)], fp, lit.adv)

field_literal_indexing(dec, buf, fp) == indexing_at(dec, fp, decode_literal_path(buf, TRUE))

\* a Huffman path seen for the first time, without indexing: dec2 is the
\* decoder with the path inserted
new_huffman_path(dec2, hd, adv) ==
    IF ~hd.ok THEN FieldErr(dec2, "InvalidHuffman") ELSE FieldOk(dec2, Plain(hd.out), adv)

\* the path str of a literal without indexing
plain_path(dec, str, adv) ==
    IF ~str.huff
    THEN IF MapHas(dec.plain_paths, str.msg)
         THEN FieldOk(dec, Cached(MapGet(dec.plain_paths, str.msg)), adv)
         ELSE FieldOk([dec EXCEPT !.next_cache_index = @ + 1,
                                  !.plain_paths = MapInsert(@, str.msg, dec.next_cache_index)],
                      Plain(str.msg), adv)
    ELSE IF MapHas(dec.huffman_paths, str.msg)
         THEN FieldOk(dec, Cached(MapGet(dec.huffman_paths, str.msg)), adv)
         ELSE new_huffman_path(
                  [dec EXCEPT !.next_cache_index = @ + 1,
                              !.huffman_paths = MapInsert(@, str.msg, dec.next_cache_index)],
                  huffman_decode(str.msg), adv)

\* Decoder::find_path, the LiteralWithoutIndexing | LiteralNeverIndexed arm,
\* once the literal is decoded
plain_at(dec, fp, lit) ==
    IF ~lit.ok THEN FieldErr(dec, lit.err)
    ELSE IF lit.path = NoneV THEN FieldOk(dec, fp, lit.adv)
    ELSE plain_path(dec, lit.path[1], lit.adv)

field_literal_plain(dec, buf, fp) == plain_at(dec, fp, decode_literal_path(buf, FALSE))

\* Decoder::find_path, the SizeUpdate arm
size_update_at(dec, fp, n) == IF ~n.ok THEN FieldErr(dec, n.err) ELSE FieldOk(dec, fp, n.adv)

field_size_update(dec, buf, fp) == size_update_at(dec, fp, decode_int(buf, 7))

\* one header field representation at the start of buf
field(dec, buf, fp, rep) ==
    CASE rep = "Indexed" -> field_indexed(dec, buf, fp)
      [] rep = "LiteralWithIndexing" -> field_literal_indexing(dec, buf, fp)
      [] rep \in {"LiteralWithoutIndexing", "LiteralNeverIndexed"} ->
             field_literal_plain(dec, buf, fp)
      [] rep = "SizeUpdate" -> field_size_update(dec, buf, fp)
      [] OTHER -> FieldErr(dec, "invalid Representation")

\* Decoder::find_path: the decoder after the block and the PathKind or error
RECURSIVE find_path_loop(_, _, _)
find_path_next(buf, step) ==
    IF ~step.ok THEN [dec |-> step.dec, res |-> step.fp]
    ELSE find_path_loop(step.dec, Drop(buf, step.adv), step.fp)

find_path_loop(dec, buf, fp) ==
    IF buf = <<>> THEN [dec |-> dec, res |-> fp]
    ELSE find_path_next(buf, field(dec, buf, fp, Representation_load(buf[1])))

find_path(dec, buf) == find_path_loop(dec, buf, PathErr("NoPathSet"))

(***************************************************************************)
(* HPACK reply encoder (hpack_encoder.rs).  An Option<usize> rank is NoneV *)
(* or Some(rank).                                                          *)
(***************************************************************************)
Encoder_new ==
    [ dynamic_table_size    |-> 0,
      rank_grpc_status_zero |-> NoneV,
      rank_content_type     |-> NoneV ]

\* a value equal to the full prefix taken as fitting the prefix
encode_int_one_byte_full(value, prefix_bits) == value <= (2 ^ prefix_bits) - 1

encode_int_one_byte(value, prefix_bits) == value < (2 ^ prefix_bits) - 1

RECURSIVE encode_int_tail(_)
encode_int_tail(value) ==
    IF value >= 128 THEN <<128 + (value % 128)>> \o encode_int_tail(value \div 128)
    ELSE <<value>>

encode_int(value, prefix_bits, first_byte) ==
    IF encode_int_one_byte(value, prefix_bits) THEN <<first_byte + value>>
    ELSE LET low == (2 ^ prefix_bits) - 1
         IN  <<first_byte + low>> \o encode_int_tail(value - low)

encode_str(val) == encode_int(Len(val), 7, 0) \o val

encode_header(name, value) == <<0>> \o encode_str(name) \o encode_str(value)

encode_with_indexed_name(name, value) == encode_int(name, 4, 0) \o encode_str(value)

\* "grpc-status"
StrGrpcStatus == <<103, 114, 112, 99, 45, 115, 116, 97, 116, 117, 115>>

\* "content-type"
StrContentType == <<99, 111, 110, 116, 101, 110, 116, 45, 116, 121, 112, 101>>

\* "application/grpc"
StrApplicationGrpc ==
    <<97, 112, 112, 108, 105, 99, 97, 116, 105, 111, 110, 47, 103, 114, 112, 99>>

\* "grpc-message"
StrGrpcMessage == <<103, 114, 112, 99, 45, 109, 101, 115, 115, 97, 103, 101>>

\* the decimal digits of a status code (CODES[code], or format!("{}", code))
RECURSIVE code_str(_)
code_str(code) ==
    IF code < 10 THEN <<48 + code>> ELSE code_str(code \div 10) \o <<48 + (code % 10)>>

\* every encoder operation gives the encoder afterwards and the bytes appended
Enc(enc, bytes) == [enc |-> enc, bytes |-> bytes]

encode_static_index(index) == encode_int(index, 7, 128)

\* an index that always names the newest entry
dynamic_index_newest(enc, rank) == 62

dynamic_index(enc, rank) == enc.dynamic_table_size - rank + 62

encode_dynamic_index(enc, rank) == encode_int(dynamic_index(enc, rank), 7, 128)

encode_and_index_header(enc, name, value) ==
    Enc([enc EXCEPT !.dynamic_table_size = @ + 1],
        encode_int(0, 6, 64) \o encode_str(name) \o encode_str(value))

encode_status_200(enc) == Enc(enc, encode_static_index(8))

encode_grpc_status_zero(enc) ==
    IF enc.rank_grpc_status_zero # NoneV
    THEN Enc(enc, encode_dynamic_index(enc, enc.rank_grpc_status_zero[1]))
    ELSE LET e == encode_and_index_header(enc, StrGrpcStatus, <<48>>)
         IN  Enc([e.enc EXCEPT !.rank_grpc_status_zero = Some(e.enc.dynamic_table_size)],
                 e.bytes)

encode_content_type(enc) ==
    IF enc.rank_content_type # NoneV
    THEN Enc(enc, encode_dynamic_index(enc, enc.rank_content_type[1]))
    ELSE LET e == encode_and_index_header(enc, StrContentType, StrApplicationGrpc)
         IN  Enc([e.enc EXCEPT !.rank_content_type = Some(e.enc.dynamic_table_size)],
                 e.bytes)

encode_grpc_status_nonzero(enc, code) ==
    IF enc.rank_grpc_status_zero # NoneV
    THEN Enc(enc, encode_with_indexed_name(dynamic_index(enc, enc.rank_grpc_status_zero[1]),
                                           code_str(code)))
    ELSE Enc(enc, encode_header(StrGrpcStatus, code_str(code)))

encode_grpc_message(enc, msg) == Enc(enc, encode_header(StrGrpcMessage, msg))

(***************************************************************************)
(* Response frames (http2.rs).                                             *)
(***************************************************************************)
\* build_response: HEADERS, DATA with the 5-byte gRPC prefix, trailing HEADERS
build_response(stream_id, reply, enc) ==
    LET e1 == encode_status_200(enc)
        e2 == encode_content_type(e1.enc)
        h1 == e1.bytes \o e2.bytes
        payload == <<0>> \o build_u32(Len(reply)) \o reply
        e3 == encode_grpc_status_zero(e2.enc)
    IN  Enc(e3.enc,
            build_head(Len(h1), KindHeaders, END_HEADERS, stream_id) \o h1
                \o build_head(Len(payload), KindData, 0, stream_id) \o payload
                \o build_head(Len(e3.bytes), KindHeaders, END_HEADERS + END_STREAM, stream_id)
                \o e3.bytes)

\* build_status: one HEADERS frame
\* a status that is dropped instead of being encoded
build_status_silent(stream_id, status, enc) == Enc(enc, <<>>)

build_status(stream_id, status, enc) ==
    LET e1 == encode_status_200(enc)
        e2 == encode_content_type(e1.enc)
        e3 == encode_grpc_status_nonzero(e2.enc, status.code)
        e4 == encode_grpc_message(e3.enc, status.message)
        h  == e1.bytes \o e2.bytes \o e3.bytes \o e4.bytes
    IN  Enc(e4.enc, build_head(Len(h), KindHeaders, END_HEADERS, stream_id) \o h)

build_window_update(len) == build_head(4, KindWindowUpdate, 0, 0) \o build_u32(len)

build_u16(n) == << (n \div 256) % 256, n % 256 >>

\* a SETTINGS frame that advertises nothing
build_settings_empty(ident, value) == build_head(0, KindSettings, 0, 0)

build_settings(ident, value) ==
    build_head(6, KindSettings, 0, 0) \o build_u16(ident) \o build_u32(value)

(***************************************************************************)
(* ResponseEnd (response_end.rs).  A Response is [ok |-> TRUE, reply |->   *)
(* bytes] or [ok |-> FALSE, status |-> [code, message]].  Every operation  *)
(* gives the ResponseEnd afterwards, the bytes it wrote to the socket and  *)
(* whether its write succeeded; wok is whether the socket accepts a write. *)
(***************************************************************************)
ResponseEnd_new ==
    [ req_count     |-> 0,
      req_data_len  |-> 0,
      hpack_encoder |-> Encoder_new,
      output        |-> <<>> ]

ReOut(re, wrote, ok) == [re |-> re, wrote |-> wrote, ok |-> ok]

\* a flush that writes a WINDOW_UPDATE even when nothing is buffered
flush_always(re, wok) ==
    LET out == re.output \o build_window_update(re.req_data_len)
    IN  IF wok
        THEN ReOut([re EXCEPT !.output = <<>>, !.req_count = 0, !.req_data_len = 0],
                   out, TRUE)
        ELSE ReOut([re EXCEPT !.output = out], <<>>, FALSE)

\* a flush that clears the buffer and keeps the counters
flush_keeps(re, wok) ==
    IF Len(re.output) = 0 THEN ReOut(re, <<>>, TRUE)
    ELSE LET out == re.output \o build_window_update(re.req_data_len)
         IN  IF wok
             THEN ReOut([re EXCEPT !.output = <<>>], out, TRUE)
             ELSE ReOut([re EXCEPT !.output = out], <<>>, FALSE)

\* ResponseEnd::flush
flush(re, wok) ==
    IF Len(re.output) = 0 THEN ReOut(re, <<>>, TRUE)
    ELSE LET out == re.output \o build_window_update(re.req_data_len)
         IN  IF wok
             THEN ReOut([re EXCEPT !.output = <<>>, !.req_count = 0, !.req_data_len = 0],
                        out, TRUE)
             ELSE ReOut([re EXCEPT !.output = out], <<>>, FALSE)

\* an update that counts the request and forgets the length of its DATA
update_forgets(re, req_data_len, wok) ==
    LET re2 == [re EXCEPT !.req_count = @ + 1]
    IN  IF re2.req_count >= max_flush_requests \/ Len(re2.output) >= max_flush_size
        THEN flush(re2, wok)
        ELSE ReOut(re2, <<>>, TRUE)

\* an update that flushes only once a threshold is exceeded
update_late(re, req_data_len, wok) ==
    LET re2 == [re EXCEPT !.req_count = @ + 1, !.req_data_len = @ + req_data_len]
    IN  IF re2.req_count > max_flush_requests \/ Len(re2.output) > max_flush_size
        THEN flush(re2, wok)
        ELSE ReOut(re2, <<>>, TRUE)

\* ResponseEnd::update
update(re, req_data_len, wok) ==
    LET re2 == [re EXCEPT !.req_count = @ + 1, !.req_data_len = @ + req_data_len]
    IN  IF re2.req_count >= max_flush_requests \/ Len(re2.output) >= max_flush_size
        THEN flush(re2, wok)
        ELSE ReOut(re2, <<>>, TRUE)

\* ResponseEnd::build
build(re, stream_id, response, req_data_len, wok) ==
    LET b == IF response.ok
             THEN build_response(stream_id, response.reply, re.hpack_encoder)
             ELSE build_status(stream_id, response.status, re.hpack_encoder)
    IN  update([re EXCEPT !.hpack_encoder = b.enc, !.output = @ \o b.bytes],
               req_data_len, wok)

(***************************************************************************)
(* The connection engine (connection.rs `handle`).                         *)
(***************************************************************************)
VARIABLES
    pc,            \* where `handle` is: handshake, read, parse, done, failed
    err,           \* the error `handle` returned with
    sock,          \* bytes the client has sent and the server has not read
    peer_closed,   \* the client has shut its sending side
    nsent,         \* frames the client has sent
    input,         \* the input buffer, max_frame_size bytes
    last_end,      \* bytes carried over at the start of the buffer
    fin,           \* `end`: valid bytes in the buffer during a burst
    pos,           \* parse position in the buffer during a burst
    streams,       \* pending streams, a VecDeque of Stream
    hpack_decoder,
    route_cache,
    resp_end,      \* the ResponseEnd of the connection
    wire,          \* bytes the server has written to the socket
    write_failed,  \* a socket write has failed
    consumed,      \* history: bytes read after the preface
    frames_log,    \* history: frames taken by the parse loop
    built          \* history: responses built, in order, each with the service and
                   \* the method that were called

lvars == << pc, err, sock, peer_closed, nsent, input, last_end, fin, pos, streams,
            hpack_decoder, route_cache, resp_end, wire, write_failed, consumed,
            frames_log, built >>

\* Dispatch mode: the input thread, the workers' request channels, the
\* connection's response channel and the output thread
VARIABLES
    in_pc,         \* the input thread: run, sending (blocked in send), closed
    in_pending,    \* the DispatchResponse the input thread is blocked sending
    in_end,        \* the ResponseEnd of the input thread (connection.rs:111)
    nreq,          \* requests decoded so far
    req_chan,      \* per worker: the bounded request channel
    worker_alive,  \* per worker: the receive end of its channel exists
    worker_resp,   \* per worker: the DispatchResponse it is sending
    resp_chan,     \* the bounded response channel of the connection
    out_pc,        \* the output thread: try_recv, recv, build, exited
    out_resp,      \* the DispatchResponse the output thread has received
    out_end,       \* the ResponseEnd of the output thread
    dwire,         \* socket writes, in order: who wrote and the bytes
    dwrite_failed, \* a socket write has failed
    handed,        \* history: requests handed to the executor
    produced,      \* history: DispatchResponses made, and who made them
    executed       \* history: stream ids of the requests workers executed

dvars == << in_pc, in_pending, in_end, nreq, req_chan, worker_alive, worker_resp, resp_chan,
            out_pc, out_resp, out_end, dwire, dwrite_failed, handed, produced, executed >>

\* the server: its accept loop and the connections it was offered
VARIABLES
    server,        \* the accept loop: its entry point, where it is, the connection
                   \* it is admitting, the live-connection counter
    conns          \* per connection offered to the listener: what became of it

\* the configuration a program builds before it serves
VARIABLES
    config,        \* the Config value
    config_call    \* history: the builder method called last and its argument

\* a header decoder fed with header blocks
VARIABLES
    hp             \* the Decoder, the Decoder as it was before the last block, and
                   \* the history of the blocks it was given and of what find_path
                   \* returned for them

\* an Encoder that encodes the replies and statuses of a connection
VARIABLES
    he             \* the Encoder, the output it has appended to, and the history of
                   \* what was encoded

\* a codec applied to an input of its own
VARIABLES
    app            \* the application: the codec, its input and what it gave

pvars == << server, conns, config, config_call, hp, he, app >>

vars == << lvars, dvars, pvars >>

\* config.max_concurrent_streams
max_concurrent_streams == 2

\* requests a client sends on a Dispatch-mode connection
MaxRequests == 4

\* the capacity the application gives each worker's request channel
ReqCap == 1

\* worker threads of the application
NumWorkers == 1

Workers == 1..NumWorkers

\* b"PRI * HTTP/2.0\r\n\r\nSM\r\n\r\n"
Preface ==
    <<80, 82, 73, 32, 42, 32, 72, 84, 84, 80, 47, 50, 46, 48, 13, 10, 13, 10, 83, 77, 13, 10,
      13, 10>>

Min(a, b) == IF a < b THEN a ELSE b

\* the services of the server, in registration order: route() of each as
\* <<path, req_disc>> pairs
services ==
    << [is_dispatch_mode |-> FALSE, routes |-> << <<(<<97>>), 0>> >>],
       [is_dispatch_mode |-> FALSE, routes |-> << <<(<<97>>), 1>>, <<(<<98>>), 0>> >>] >>

\* PajamaxService::route
route(svc, path) == IF MapHas(svc.routes, path) THEN Some(MapGet(svc.routes, path)) ELSE NoneV

\* the frames a client sends
ClientFrames ==
    { build_head(3, KindHeaders, END_HEADERS, 1) \o <<4, 1, 97>>,
      build_head(3, KindHeaders, END_HEADERS, 3) \o <<4, 1, 98>>,
      build_head(5, KindData, 0, 1) \o <<0, 0, 0, 0, 0>>,
      build_head(6, KindData, END_STREAM, 3) \o <<0, 0, 0, 0, 1, 7>>,
      build_head(0, KindHeaders, 0, 5),
      build_head(0, KindSettings, 0, 0),
      build_head(max_frame_size - 8, KindSettings, 0, 0)
          \o [i \in 1..(max_frame_size - 8) |-> 0] }

\* config.max_concurrent_connections
max_concurrent_connections == 2

\* connections offered to the listener
MaxConns == 4

ConnIds == 1..MaxConns

\* the accept loop before its first connection: `entry` is the function that
\* runs it, once it has started; the counter is AtomicUsize::new(0)
Server_new == [entry |-> "none", at |-> "accept", cur |-> 0, concurrent |-> 0]

\* Config::new, the durations in seconds
Config_new ==
    [ max_concurrent_connections |-> 100,
      max_concurrent_streams     |-> 1000,
      max_frame_size             |-> 16 * 1024,
      max_flush_requests         |-> 50,
      max_flush_size             |-> 15000,
      idle_timeout               |-> 60,
      write_timeout              |-> 10 ]

\* what a service method can answer to a request
Replies ==
    { [ok |-> TRUE, reply |-> <<8, 1>>],
      [ok |-> FALSE, status |-> [code |-> 5, message |-> <<101>>]] }

Init ==
    /\ pc = "handshake"
    /\ err = ""
    /\ sock = <<>>
    /\ peer_closed = FALSE
    /\ nsent = 0
    /\ input = [i \in 1..max_frame_size |-> 0]
    /\ last_end = 0
    /\ fin = 0
    /\ pos = 0
    /\ streams = <<>>
    /\ hpack_decoder = Decoder_new
    /\ route_cache = <<>>
    /\ resp_end = ResponseEnd_new
    /\ wire = <<>>
    /\ write_failed = FALSE
    /\ consumed = <<>>
    /\ frames_log = <<>>
    /\ built = <<>>
    /\ in_pc = "run"
    /\ in_pending = NoneV
    /\ in_end = ResponseEnd_new
    /\ nreq = 0
    /\ req_chan = [w \in Workers |-> <<>>]
    /\ worker_alive = [w \in Workers |-> TRUE]
    /\ worker_resp = [w \in Workers |-> NoneV]
    /\ resp_chan = <<>>
    /\ out_pc = "try_recv"
    /\ out_resp = NoneV
    /\ out_end = ResponseEnd_new
    /\ dwire = <<>>
    /\ dwrite_failed = FALSE
    /\ handed = <<>>
    /\ produced = {}
    /\ executed = {}
    /\ server = Server_new
    /\ conns = [c \in ConnIds |-> "new"]
    /\ config = Config_new
    /\ config_call = NoneV
    /\ hp = [dec |-> Decoder_new, was |-> Decoder_new, blocks |-> <<>>, res |-> <<>>]
    /\ he = [enc |-> Encoder_new, output |-> <<>>, calls |-> <<>>]
    /\ app = [op |-> "none"]

\* the client sends the connection preface, right or with a wrong last byte
ClientPreface ==
    /\ UNCHANGED << dvars, pvars >>
    /\ pc = "handshake" /\ sock = <<>> /\ ~peer_closed /\ nsent = 0
    /\ \E p \in {Preface, [Preface EXCEPT ![24] = 0]} : sock' = p
    /\ nsent' = 1
    /\ UNCHANGED << pc, err, peer_closed, input, last_end, fin, pos, streams, hpack_decoder,
                    route_cache, resp_end, wire, write_failed, consumed, frames_log, built >>

\* the client sends one frame; the server sees it at its next read, so the
\* sends are taken while the server is about to read
ClientSend ==
    /\ UNCHANGED << dvars, pvars >>
    /\ pc = "read" /\ ~peer_closed
    /\ nsent >= 1 /\ nsent <= MaxFrames
    /\ \E f \in ClientFrames : sock' = sock \o f
    /\ nsent' = nsent + 1
    /\ UNCHANGED << pc, err, peer_closed, input, last_end, fin, pos, streams, hpack_decoder,
                    route_cache, resp_end, wire, write_failed, consumed, frames_log, built >>

\* the client shuts its sending side
ClientClose ==
    /\ UNCHANGED << dvars, pvars >>
    /\ pc \in {"handshake", "read"} /\ ~peer_closed
    /\ peer_closed' = TRUE
    /\ UNCHANGED << pc, err, sock, nsent, input, last_end, fin, pos, streams, hpack_decoder,
                    route_cache, resp_end, wire, write_failed, consumed, frames_log, built >>

\* `handle` returns Err(e): the connection and its buffers are dropped
Fail(e) == pc' = "failed" /\ err' = e

\* http2::handshake: one read of the 24-byte preface, then the SETTINGS
Handshake ==
    /\ UNCHANGED << dvars, pvars >>
    /\ pc = "handshake"
    /\ sock # <<>> \/ peer_closed
    /\ \E len \in 0..Min(24, Len(sock)), wok \in BOOLEAN :
          /\ len = 0 => sock = <<>>
          /\ sock' = Drop(sock, len)
          /\ IF len # 24 THEN
                Fail("too short handshake") /\ UNCHANGED << wire, write_failed >>
             ELSE IF Take(sock, 24) # Preface THEN
                Fail("invalid handshake message") /\ UNCHANGED << wire, write_failed >>
             ELSE IF ~wok THEN
                Fail("io") /\ write_failed' = TRUE /\ UNCHANGED wire
             ELSE
                /\ wire' = wire \o build_settings(3, max_concurrent_streams)
                                \o build_settings(5, max_frame_size)
                /\ pc' = "read"
                /\ UNCHANGED << err, write_failed >>
    /\ UNCHANGED << peer_closed, nsent, input, last_end, fin, pos, streams, hpack_decoder,
                    route_cache, resp_end, consumed, frames_log, built >>

\* a carry-over that leaves the buffer as it is
copy_nothing(buf, from, to) == buf

\* slice::copy_within(from..to, 0) on the input buffer
copy_within(buf, from, to) ==
    [i \in 1..Len(buf) |-> IF i <= to - from THEN buf[from + i] ELSE buf[i]]

\* a lookup that takes the oldest pending stream whatever its id
position_front(q, id) == IF Len(q) > 0 THEN Some(1) ELSE NoneV

\* streams.iter().position(|s| s.id == id): NoneV, or Some of a 1-based index
position(q, id) ==
    IF \E i \in 1..Len(q) : q[i].id = id
    THEN Some(CHOOSE i \in 1..Len(q) : q[i].id = id /\ \A j \in 1..(i - 1) : q[j].id # id)
    ELSE NoneV

\* a removal that takes the oldest pending stream
remove_front(q, i) == Tail(q)

\* VecDeque::remove
remove(q, i) == Take(q, i - 1) \o Drop(q, i)

\* the first service that routes the path, as Some(<<isvc, req_disc>>) with
\* isvc counted from 0, or NoneV
first_route(path) ==
    IF \E i \in 1..Len(services) : route(services[i], path) # NoneV
    THEN LET i == CHOOSE k \in 1..Len(services) :
                      /\ route(services[k], path) # NoneV
                      /\ \A j \in 1..(k - 1) : route(services[j], path) = NoneV
         IN  Some(<<i - 1, route(services[i], path)[1]>>)
    ELSE NoneV

\* c.read(&mut input[last_end..]) returned len > 0
Read ==
    /\ UNCHANGED << dvars, pvars >>
    /\ pc = "read"
    /\ \E len \in 1..Min(max_frame_size - last_end, Len(sock)) :
          /\ input' = [i \in 1..max_frame_size |->
                          IF last_end < i /\ i <= last_end + len
                          THEN sock[i - last_end] ELSE input[i]]
          /\ fin' = last_end + len
          /\ consumed' = consumed \o Take(sock, len)
          /\ sock' = Drop(sock, len)
    /\ pos' = 0
    /\ pc' = "parse"
    /\ UNCHANGED << err, peer_closed, nsent, last_end, streams, hpack_decoder, route_cache,
                    resp_end, wire, write_failed, frames_log, built >>

\* c.read returned 0 (the peer closed, or no room is left in the buffer), or
\* an error (the idle timeout): `handle` returns Ok(())
ReadEnd ==
    /\ UNCHANGED << dvars, pvars >>
    /\ pc = "read"
    /\ \/ sock = <<>> /\ peer_closed
       \/ last_end = max_frame_size
       \/ sock = <<>> /\ ~peer_closed
    /\ pc' = "done"
    /\ UNCHANGED << err, sock, peer_closed, nsent, input, last_end, fin, pos, streams,
                    hpack_decoder, route_cache, resp_end, wire, write_failed, consumed,
                    frames_log, built >>

\* the frame the parse loop is at, NoneV when the rest of the burst is not a
\* complete frame
CurFrame == Frame_parse(SubSeq(input, pos + 1, fin))

\* the FrameKind::Headers arm, once find_path has answered: the route of the
\* path, the new pending stream
OnPath(frame, fp) ==
    /\ hpack_decoder' = fp.dec
    /\ CASE fp.res.tag = "Err" ->
              Fail(fp.res.err) /\ UNCHANGED << route_cache, streams >>
         [] fp.res.tag = "Cached" ->
              IF fp.res.cached >= Len(route_cache)
              THEN Fail("panic") /\ UNCHANGED << route_cache, streams >>
              ELSE /\ streams' = Append(streams,
                          [id       |-> frame.stream_id,
                           isvc     |-> route_cache[fp.res.cached + 1][1],
                           req_disc |-> route_cache[fp.res.cached + 1][2]])
                   /\ UNCHANGED << pc, err, route_cache >>
         [] fp.res.tag = "Plain" ->
              IF first_route(fp.res.path) = NoneV
              THEN Fail("UnknownMethod") /\ UNCHANGED << route_cache, streams >>
              ELSE /\ route_cache' = Append(route_cache, first_route(fp.res.path)[1])
                   /\ streams' = Append(streams,
                          [id       |-> frame.stream_id,
                           isvc     |-> first_route(fp.res.path)[1][1],
                           req_disc |-> first_route(fp.res.path)[1][2]])
                   /\ UNCHANGED << pc, err >>

\* the FrameKind::Headers arm, once process_headers has answered
OnHeadersBuf(frame, h) ==
    IF ~h.ok THEN Fail(h.err) /\ UNCHANGED << hpack_decoder, route_cache, streams >>
    ELSE OnPath(frame, find_path(hpack_decoder, h.buf))

\* the FrameKind::Headers arm
OnHeaders(frame) == OnHeadersBuf(frame, process_headers(frame))

\* local_build_response: b is what ResponseEnd::build did
LocalBuilt(s, response, b) ==
    /\ built' = Append(built, [id |-> s.id, ok |-> response.ok,
                                isvc |-> s.isvc, req_disc |-> s.req_disc])
    /\ IF b.ok
       THEN /\ resp_end' = b.re
            /\ wire' = wire \o b.wrote
            /\ UNCHANGED << pc, err, write_failed >>
       ELSE /\ Fail("io")
            /\ write_failed' = TRUE
            /\ UNCHANGED << resp_end, wire >>

\* PajamaxService::handle in local mode: decode the request, call the method,
\* local_build_response
LocalHandle(s, frame_len) ==
    \/ Fail("InvalidProtobuf") /\ UNCHANGED << resp_end, wire, write_failed, built >>
    \/ \E response \in Replies, wok \in BOOLEAN :
          LocalBuilt(s, response, build(resp_end, s.id, response, frame_len, wok))

\* a Data arm without the `continue` for an empty payload
OnData_strict(frame) ==
    LET d == process_data(frame)
    IN  IF ~d.ok THEN
            Fail(d.err) /\ UNCHANGED << streams, resp_end, wire, write_failed, built >>
        ELSE IF Len(d.buf) < 5 THEN
            /\ Fail("DATA frame too short for grpc")
            /\ UNCHANGED << streams, resp_end, wire, write_failed, built >>
        ELSE LET i == position(streams, frame.stream_id)
             IN  IF i = NoneV THEN
                     /\ Fail("DATA frame without HEADER")
                     /\ UNCHANGED << streams, resp_end, wire, write_failed, built >>
                 ELSE /\ streams' = remove(streams, i[1])
                      /\ LocalHandle(streams[i[1]], frame.len)

\* the FrameKind::Data arm
OnData(frame) ==
    LET d == process_data(frame)
    IN  IF ~d.ok THEN
            Fail(d.err) /\ UNCHANGED << streams, resp_end, wire, write_failed, built >>
        ELSE IF Len(d.buf) = 0 THEN
            UNCHANGED << pc, err, streams, resp_end, wire, write_failed, built >>
        ELSE IF Len(d.buf) < 5 THEN
            /\ Fail("DATA frame too short for grpc")
            /\ UNCHANGED << streams, resp_end, wire, write_failed, built >>
        ELSE LET i == position(streams, frame.stream_id)
             IN  IF i = NoneV THEN
                     /\ Fail("DATA frame without HEADER")
                     /\ UNCHANGED << streams, resp_end, wire, write_failed, built >>
                 ELSE /\ streams' = remove(streams, i[1])
                      /\ LocalHandle(streams[i[1]], frame.len)

\* one turn of `while let Some(frame) = Frame::parse(&input[pos..end])`
ProcessFrame ==
    /\ UNCHANGED << dvars, pvars >>
    /\ pc = "parse"
    /\ CurFrame # NoneV
    /\ LET frame == CurFrame[1]
       IN  /\ pos' = pos + HEAD_SIZE + frame.len
           /\ frames_log' = Append(frames_log, frame)
           /\ CASE frame.kind = KindHeaders ->
                     OnHeaders(frame) /\ UNCHANGED << resp_end, wire, write_failed, built >>
                [] frame.kind = KindData ->
                     OnData(frame) /\ UNCHANGED << hpack_decoder, route_cache >>
                [] OTHER ->
                     UNCHANGED << pc, err, streams, hpack_decoder, route_cache, resp_end,
                                  wire, write_failed, built >>
    /\ UNCHANGED << sock, peer_closed, nsent, input, last_end, fin, consumed >>

\* the end of a burst: flush, then keep the incomplete frame for the next read;
\* `end` and `pos` are locals of the burst and go out of scope
EndBurst ==
    /\ UNCHANGED << dvars, pvars >>
    /\ pc = "parse"
    /\ CurFrame = NoneV
    /\ \E wok \in BOOLEAN :
          LET fl == flush(resp_end, wok)
          IN  IF ~fl.ok THEN
                  /\ Fail("io")
                  /\ write_failed' = TRUE
                  /\ UNCHANGED << resp_end, wire, input, last_end, fin, pos >>
              ELSE
                  /\ resp_end' = fl.re
                  /\ wire' = wire \o fl.wrote
                  /\ UNCHANGED write_failed
                  /\ IF pos = 0 THEN
                         Fail("too long frame") /\ UNCHANGED << input, last_end, fin, pos >>
                     ELSE IF pos < fin THEN
                         /\ input' = copy_within(input, pos, fin)
                         /\ last_end' = fin - pos
                         /\ pc' = "read" /\ fin' = 0 /\ pos' = 0
                         /\ UNCHANGED err
                     ELSE
                         /\ last_end' = 0
                         /\ pc' = "read" /\ fin' = 0 /\ pos' = 0
                         /\ UNCHANGED << err, input >>
    /\ UNCHANGED << sock, peer_closed, nsent, streams, hpack_decoder, route_cache,
                    consumed, frames_log, built >>

Next ==
    \/ ClientPreface
    \/ ClientSend
    \/ ClientClose
    \/ Handshake
    \/ Read
    \/ ReadEnd
    \/ ProcessFrame
    \/ EndBurst

Spec == Init /\ [][Next]_vars

(***************************************************************************)
(* Reading the histories: the frames of a byte stream, the responses on    *)
(* the wire.                                                               *)
(***************************************************************************)
\* the complete frames at the start of a byte stream, in order
RECURSIVE ParseAll(_)
ParseAllFrom(buf, f) ==
    IF f = NoneV THEN <<>> ELSE <<f[1]>> \o ParseAll(Drop(buf, HEAD_SIZE + f[1].len))

ParseAll(buf) == ParseAllFrom(buf, Frame_parse(buf))

RECURSIVE FramesSize(_)
FramesSize(fs) == IF fs = <<>> THEN 0 ELSE HEAD_SIZE + fs[1].len + FramesSize(Tail(fs))

\* a response starts with a HEADERS frame whose block starts with the indexed
\* field 8, `:status: 200`
IsResponseStart(f) == f.kind = KindHeaders /\ f.len > 0 /\ f.payload[1] = 128 + 8

\* the stream ids of the responses in a byte stream, in order
ResponseIds(bytes) ==
    LET starts == SelectSeq(ParseAll(bytes), IsResponseStart)
    IN  [i \in 1..Len(starts) |-> starts[i].stream_id]

BuiltIds == [i \in 1..Len(built) |-> built[i].id]

\* the frames of a byte stream that belong to stream s
FramesOf(bytes, s) == SelectSeq(ParseAll(bytes), LAMBDA f : f.stream_id = s)

\* the number of pending slots of stream s
Slots(q, s) == Cardinality({i \in 1..Len(q) : q[i].id = s})

(***************************************************************************)
(* Claims on the Local-mode engine (Spec).                                 *)
(***************************************************************************)
\* the HEADERS frames taken so far for stream s
HeadersTaken(s) == Len(SelectSeq(frames_log, LAMBDA f : f.kind = KindHeaders /\ f.stream_id = s))

Answers(s) == Len(SelectSeq(built, LAMBDA b : b.id = s))

StreamIds == {f.stream_id : f \in {Frame_parse(c)[1] : c \in ClientFrames}}

\* a step that builds a response is the DATA arm acting on a DATA frame of at
\* least 5 payload bytes whose stream has a pending slot; it builds one
\* response, with the id of the frame, and takes one slot of that id away
C1_Step ==
    built' # built =>
        /\ pc = "parse" /\ CurFrame # NoneV
        /\ CurFrame[1].kind = KindData
        /\ process_data(CurFrame[1]).ok
        /\ Len(process_data(CurFrame[1]).buf) >= 5
        /\ Slots(streams, CurFrame[1].stream_id) >= 1
        /\ Len(built') = Len(built) + 1
        /\ SubSeq(built', 1, Len(built)) = built
        /\ built'[Len(built')].id = CurFrame[1].stream_id
        /\ Slots(streams', CurFrame[1].stream_id) = Slots(streams, CurFrame[1].stream_id) - 1
        /\ Len(streams') = Len(streams) - 1

\* the responses in the response buffer and on the wire are the responses
\* built, in order, and a stream has no more answers and pending slots than
\* HEADERS frames taken for it
C1_Emitted ==
    /\ IsPrefix(ResponseIds(wire \o resp_end.output), BuiltIds)
    /\ ~write_failed => ResponseIds(wire \o resp_end.output) = BuiltIds
    /\ \A s \in StreamIds : Answers(s) + Slots(streams, s) <= HeadersTaken(s)

\* C1: in Local mode a response with stream id s is built and emitted only by
\* a DATA frame of at least 5 payload bytes for s that finds a pending slot of
\* s; that step removes the slot and builds exactly one response, carrying s;
\* no stream is answered without a routed HEADERS and a DATA before.
C1_ResponseOnlyForPendingData == [][C1_Step]_vars /\ []C1_Emitted

\* stream 3 is answered on the wire while the slot of stream 1 is pending
C1_Witness ==
    /\ pc = "read"
    /\ BuiltIds = <<3>>
    /\ ResponseIds(wire) = <<3>>
    /\ Slots(streams, 1) = 1

\* C6: in Local mode every response built during a burst is written before the
\* next read or the end of the connection: at a read the response buffer is
\* empty and the wire holds every response built, and, unless a socket write
\* failed, a connection that has ended has written every response it built.
C6_BuiltResponsesWritten ==
    /\ pc = "read" => resp_end.output = <<>> /\ ResponseIds(wire) = BuiltIds
    /\ (pc \in {"done", "failed"} /\ ~write_failed) => ResponseIds(wire) = BuiltIds

\* C7: the last frame written for an answered stream carries END_STREAM and
\* no earlier frame of that stream does.
C7_ResponsesCloseStream ==
    \A s \in StreamIds \ {0} :
        LET fs == FramesOf(wire, s)
        IN  fs # <<>> =>
                /\ HasFlag(fs[Len(fs)].flags, END_STREAM)
                /\ \A i \in 1..(Len(fs) - 1) : ~HasFlag(fs[i].flags, END_STREAM)

\* C8: each stream id has at most one pending slot.
C8_OneSlotPerStream == \A s \in StreamIds : Slots(streams, s) <= 1

\* C9: a burst without a complete frame fails with "too long frame" only when
\* the input buffer is full.
C9_TooLongOnlyWhenFull ==
    (pc = "failed" /\ err = "too long frame") => fin = max_frame_size

\* C10: the frames taken are the frames of the unsegmented byte stream, in
\* order; at a read every complete frame received has been taken, the carried
\* tail at the start of the buffer is the rest of the stream, unchanged, and it
\* is shorter than the buffer; during a burst the bytes not yet parsed are the
\* rest of the stream.
C10_CarryOver ==
    /\ IsPrefix(frames_log, ParseAll(consumed))
    /\ pc = "read" =>
          /\ frames_log = ParseAll(consumed)
          /\ Take(input, last_end) = Drop(consumed, FramesSize(frames_log))
          /\ last_end < max_frame_size
    /\ pc = "parse" =>
          SubSeq(input, pos + 1, fin) = Drop(consumed, FramesSize(frames_log))

\* a burst that started with a carried tail has taken a frame: the frame began
\* in the tail of the burst before
C10_Witness == pc = "parse" /\ last_end > 0 /\ pos > last_end /\ Len(frames_log) >= 2

(***************************************************************************)
(* Dispatch mode (dispatch_server.rs): DispatchConnection::handle_call on  *)
(* the input thread, DispatchRequest::handle on the workers and            *)
(* response_routine on the output thread.                                  *)
(***************************************************************************)
\* Code::Unavailable
Code_Unavailable == 14

\* Code::Internal
Code_Internal == 13

\* "dispatch channel is full"
StrChannelFull ==
    <<100, 105, 115, 112, 97, 116, 99, 104, 32, 99, 104, 97, 110, 110, 101, 108, 32, 105, 115, 32, 102, 117, 108, 108>>

\* "dispatch channel is closed"
StrChannelClosed ==
    <<100, 105, 115, 112, 97, 116, 99, 104, 32, 99, 104, 97, 110, 110, 101, 108, 32, 105, 115, 32, 99, 108, 111, 115, 101, 100>>

\* the DATA frame length of the request on stream_id: each request of the
\* model has its own
DataLen(stream_id) == 5 + (stream_id \div 2)

\* mpsc::SyncSender::try_send on a channel of capacity cap whose receive end
\* exists iff alive: the outcome and the channel afterwards
try_send(chan, alive, cap, msg) ==
    IF ~alive THEN [res |-> "Disconnected", chan |-> chan]
    ELSE IF Len(chan) >= cap THEN [res |-> "Full", chan |-> chan]
    ELSE [res |-> "Ok", chan |-> Append(chan, msg)]

\* a status mapping with the two codes exchanged
failure_status_swapped(res) ==
    IF res = "Full"
    THEN [code |-> Code_Internal, message |-> StrChannelFull]
    ELSE [code |-> Code_Unavailable, message |-> StrChannelClosed]

\* handle_call: the Status of a TrySendError
failure_status(res) ==
    IF res = "Full"
    THEN [code |-> Code_Unavailable, message |-> StrChannelFull]
    ELSE [code |-> Code_Internal, message |-> StrChannelClosed]

\* a response that carries the id of the stream before
DispatchResponse_prev(stream_id, req_data_len, response) ==
    [stream_id |-> stream_id - 2, req_data_len |-> req_data_len, response |-> response]

\* struct DispatchResponse
DispatchResponse(stream_id, req_data_len, response) ==
    [stream_id |-> stream_id, req_data_len |-> req_data_len, response |-> response]

\* a send that waits for room even when the receive end is gone
send_waits(chan, alive, cap, msg) ==
    IF Len(chan) >= cap THEN [res |-> "Blocked", chan |-> chan]
    ELSE IF ~alive THEN [res |-> "Disconnected", chan |-> chan]
    ELSE [res |-> "Ok", chan |-> Append(chan, msg)]

\* mpsc::SyncSender::send on a channel of capacity cap whose receive end
\* exists iff alive: it fails when the receive end is gone, waits while the
\* channel is at capacity, and queues the message otherwise
send(chan, alive, cap, msg) ==
    IF ~alive THEN [res |-> "Disconnected", chan |-> chan]
    ELSE IF Len(chan) >= cap THEN [res |-> "Blocked", chan |-> chan]
    ELSE [res |-> "Ok", chan |-> Append(chan, msg)]

\* a sender of the response channel exists: the input thread's, or the clone
\* inside a DispatchRequest that is queued or being handled
SendersAlive ==
    \/ in_pc # "closed"
    \/ \E w \in Workers : req_chan[w] # <<>> \/ worker_resp[w] # NoneV

\* the input thread makes a DispatchResponse and sends it with the blocking
\* resp_tx.send: it is queued, or the thread blocks while the channel is at
\* capacity, or the send fails (ignored) when the output thread has gone
InputRespond(resp, by) ==
    LET sent == send(resp_chan, out_pc # "exited", max_concurrent_streams, resp)
    IN  /\ produced' = produced \cup {[resp |-> resp, by |-> by]}
        /\ IF sent.res = "Blocked"
           THEN in_pc' = "sending" /\ in_pending' = Some(resp) /\ UNCHANGED resp_chan
           ELSE resp_chan' = sent.chan /\ UNCHANGED << in_pc, in_pending >>

\* handle_call, dispatch_to returned Some(req_tx): sent is what try_send did
InputDispatch(to, req, sent) ==
    IF sent.res = "Ok"
    THEN /\ req_chan' = [req_chan EXCEPT ![to] = sent.chan]
         /\ UNCHANGED << in_pc, in_pending, resp_chan, produced >>
    ELSE /\ InputRespond(DispatchResponse(req.stream_id, req.req_data_len,
                             [ok |-> FALSE, status |-> failure_status(sent.res)]),
                         "failure")
         /\ UNCHANGED req_chan

\* DispatchConnection::handle_call for the next request of the connection;
\* `to` is what dispatch_to answers: a worker, or 0 for none
InputCall ==
    /\ UNCHANGED << lvars, pvars >>
    /\ in_pc = "run"
    /\ nreq < MaxRequests
    /\ \E to \in Workers \cup {0} :
          LET req == [stream_id |-> 2 * nreq + 1, req_data_len |-> DataLen(2 * nreq + 1),
                      to |-> to]
          IN  /\ handed' = Append(handed, req)
              /\ IF to # 0
                 THEN InputDispatch(to, req,
                          try_send(req_chan[to], worker_alive[to], ReqCap, req))
                 ELSE /\ \E response \in Replies :
                            InputRespond(DispatchResponse(req.stream_id, req.req_data_len,
                                                          response), "local")
                      /\ UNCHANGED req_chan
    /\ nreq' = nreq + 1
    /\ UNCHANGED << in_end, worker_alive, worker_resp, out_pc, out_resp, out_end, dwire,
                    dwrite_failed, executed >>

\* the blocked send of the input thread returns
InputSend ==
    /\ UNCHANGED << lvars, pvars >>
    /\ in_pc = "sending"
    /\ LET sent == send(resp_chan, out_pc # "exited", max_concurrent_streams, in_pending[1])
       IN  sent.res # "Blocked" /\ resp_chan' = sent.chan
    /\ in_pc' = "run"
    /\ in_pending' = NoneV
    /\ UNCHANGED << in_end, nreq, req_chan, worker_alive, worker_resp, out_pc, out_resp, out_end, dwire,
                    dwrite_failed, handed, produced, executed >>

\* the connection ends: the input thread drops the DispatchConnection and
\* with it its sender of the response channel
InputClose ==
    /\ UNCHANGED << lvars, pvars >>
    /\ in_pc = "run"
    /\ in_pc' = "closed"
    /\ UNCHANGED << in_pending, in_end, nreq, req_chan, worker_alive, worker_resp, resp_chan,
                    out_pc, out_resp, out_end, dwire, dwrite_failed, handed, produced, executed >>

\* DispatchRequest::handle on worker w, up to the send: ctx.call(request)
WorkerHandle(w) ==
    /\ UNCHANGED << lvars, pvars >>
    /\ worker_alive[w] /\ worker_resp[w] = NoneV /\ req_chan[w] # <<>>
    /\ \E response \in Replies :
          LET req  == Head(req_chan[w])
              resp == DispatchResponse(req.stream_id, req.req_data_len, response)
          IN  /\ worker_resp' = [worker_resp EXCEPT ![w] = Some(resp)]
              /\ produced' = produced \cup {[resp |-> resp, by |-> "worker"]}
              /\ executed' = executed \cup {req.stream_id}
    /\ req_chan' = [req_chan EXCEPT ![w] = Tail(@)]
    /\ UNCHANGED << in_pc, in_pending, in_end, nreq, worker_alive, resp_chan, out_pc, out_resp, out_end,
                    dwire, dwrite_failed, handed >>

\* DispatchRequest::handle on worker w: `let _ = resp_tx.send(resp)` returns
WorkerSend(w) ==
    /\ UNCHANGED << lvars, pvars >>
    /\ worker_resp[w] # NoneV
    /\ LET sent == send(resp_chan, out_pc # "exited", max_concurrent_streams,
                        worker_resp[w][1])
       IN  sent.res # "Blocked" /\ resp_chan' = sent.chan
    /\ worker_resp' = [worker_resp EXCEPT ![w] = NoneV]
    /\ UNCHANGED << in_pc, in_pending, in_end, nreq, req_chan, worker_alive, out_pc, out_resp, out_end,
                    dwire, dwrite_failed, handed, produced, executed >>

\* worker w ends once it has handled what it received: the receive end of its
\* request channel is dropped
WorkerStop(w) ==
    /\ UNCHANGED << lvars, pvars >>
    /\ worker_alive[w] /\ worker_resp[w] = NoneV /\ req_chan[w] = <<>>
    /\ worker_alive' = [worker_alive EXCEPT ![w] = FALSE]
    /\ UNCHANGED << in_pc, in_pending, in_end, nreq, req_chan, worker_resp, resp_chan, out_pc, out_resp,
                    out_end, dwire, dwrite_failed, handed, produced, executed >>

\* ResponseEnd::flush(force) of the dispatch_server.rs revision: a forced
\* flush writes whatever is buffered, an unforced one only past a threshold
flush_bool(re, force, wok) ==
    IF force \/ re.req_count >= max_flush_requests \/ Len(re.output) >= max_flush_size
    THEN flush(re, wok)
    ELSE ReOut(re, <<>>, TRUE)

\* one write to the socket by thread `by`, none when there are no bytes
Chunk(by, bytes) == IF bytes = <<>> THEN <<>> ELSE << [by |-> by, bytes |-> bytes] >>

\* response_routine after build (b, its result is not looked at) and
\* flush(false)? (fl)
OutFlushed(b, fl) ==
    /\ out_resp' = NoneV
    /\ out_end' = fl.re
    /\ dwire' = dwire \o Chunk("output", b.wrote) \o Chunk("output", fl.wrote)
    /\ IF fl.ok THEN out_pc' = "try_recv" /\ UNCHANGED dwrite_failed
       ELSE out_pc' = "exited" /\ dwrite_failed' = TRUE

OutBuilt(b, wok) == OutFlushed(b, flush_bool(b.re, FALSE, wok))

\* a receive that takes the message sent last
recv_newest(chan) ==
    [msg |-> chan[Len(chan)], chan |-> SubSeq(chan, 1, Len(chan) - 1)]

\* mpsc::Receiver::recv / try_recv on a channel that is not empty: the message
\* sent first, and the channel afterwards
recv(chan) == [msg |-> Head(chan), chan |-> Tail(chan)]

\* response_routine: try_recv or recv returns the response at the head of
\* the channel
OutTake ==
    LET got == recv(resp_chan)
    IN  /\ resp_chan' = got.chan
        /\ out_resp' = Some(got.msg)
        /\ out_pc' = "build"
        /\ UNCHANGED << out_end, dwire, dwrite_failed >>

\* response_routine: resp_end.build(..) and resp_end.flush(false)? for the
\* response it has received
OutBuild ==
    /\ UNCHANGED << lvars, pvars >>
    /\ out_pc = "build"
    /\ \E wok \in BOOLEAN :
          OutBuilt(build(out_end, out_resp[1].stream_id, out_resp[1].response,
                         out_resp[1].req_data_len, wok), wok)
    /\ UNCHANGED << in_pc, in_pending, in_end, nreq, req_chan, worker_alive, worker_resp,
                    resp_chan, handed, produced, executed >>

\* response_routine, try_recv found the channel empty: flush(true)?
OutIdle(fl) ==
    /\ out_resp' = out_resp
    /\ out_end' = fl.re
    /\ dwire' = dwire \o Chunk("output", fl.wrote)
    /\ IF fl.ok THEN out_pc' = "recv" /\ UNCHANGED dwrite_failed
       ELSE out_pc' = "exited" /\ dwrite_failed' = TRUE

\* response_routine at resp_rx.try_recv()
OutTryRecv ==
    /\ UNCHANGED << lvars, pvars >>
    /\ out_pc = "try_recv"
    /\ IF resp_chan # <<>> THEN OutTake
       ELSE IF ~SendersAlive
       THEN out_pc' = "exited"
            /\ UNCHANGED << resp_chan, out_resp, out_end, dwire, dwrite_failed >>
       ELSE /\ \E wok \in BOOLEAN : OutIdle(flush_bool(out_end, TRUE, wok))
            /\ UNCHANGED resp_chan
    /\ UNCHANGED << in_pc, in_pending, in_end, nreq, req_chan, worker_alive, worker_resp,
                    handed, produced, executed >>

\* response_routine at the blocking resp_rx.recv()?
OutRecv ==
    /\ UNCHANGED << lvars, pvars >>
    /\ out_pc = "recv"
    /\ resp_chan # <<>> \/ ~SendersAlive
    /\ IF resp_chan # <<>> THEN OutTake
       ELSE out_pc' = "exited"
            /\ UNCHANGED << resp_chan, out_resp, out_end, dwire, dwrite_failed >>
    /\ UNCHANGED << in_pc, in_pending, in_end, nreq, req_chan, worker_alive, worker_resp,
                    handed, produced, executed >>

NextDispatch ==
    \/ InputCall
    \/ InputSend
    \/ InputClose
    \/ \E w \in Workers : WorkerHandle(w)
    \/ \E w \in Workers : WorkerSend(w)
    \/ \E w \in Workers : WorkerStop(w)
    \/ OutTryRecv
    \/ OutRecv
    \/ OutBuild

SpecDispatch == Init /\ [][NextDispatch]_vars

\* the bytes written to the socket, in order
RECURSIVE ChunkBytes(_)
ChunkBytes(chunks) ==
    IF chunks = <<>> THEN <<>> ELSE chunks[1].bytes \o ChunkBytes(Tail(chunks))

(***************************************************************************)
(* Claims on Dispatch mode (SpecDispatch).                                 *)
(***************************************************************************)
Range(q) == {q[i] : i \in 1..Len(q)}

\* the request is waiting in the request channel of its worker
Queued(r) == r.to # 0 /\ r \in Range(req_chan[r.to])

\* the DispatchResponses that exist and are not yet with the output thread
InTransit ==
    Range(resp_chan) \cup Range(in_pending)
        \cup UNION {Range(worker_resp[w]) : w \in Workers}

WrittenIds == Range(ResponseIds(ChunkBytes(dwire)))

\* C4: in Dispatch mode, when no socket write has failed, an output thread
\* that has exited has written every DispatchResponse that was sent.
C4_SentResponsesWritten ==
    (out_pc = "exited" /\ ~dwrite_failed) =>
        \A p \in produced : p.resp.stream_id \in WrittenIds

\* the request handed in this step
NewRequest == handed'[Len(handed')]

\* the step answers the request r with a status of the given code
AnswersWith(r, code) ==
    \E p \in produced' \ produced :
        /\ p.resp.stream_id = r.stream_id
        /\ ~p.resp.response.ok
        /\ p.resp.response.status.code = code

\* a request for a worker whose channel is full is answered with code 14 and
\* not queued, one for a worker whose channel is closed with code 13, and the
\* input thread goes on
C5_Step ==
    (handed' # handed /\ NewRequest.to # 0) =>
        /\ (worker_alive[NewRequest.to] /\ Len(req_chan[NewRequest.to]) >= ReqCap) =>
              AnswersWith(NewRequest, 14) /\ req_chan' = req_chan /\ in_pc' # "closed"
        /\ ~worker_alive[NewRequest.to] =>
              AnswersWith(NewRequest, 13) /\ req_chan' = req_chan /\ in_pc' # "closed"

\* the digits of grpc-status in the block of a status response
HasStatusDigits(payload, code) ==
    \E i \in 1..(Len(payload) - 2) :
        SubSeq(payload, i, i + 2) = <<2, 48 + (code \div 10), 48 + (code % 10)>>

\* no failed request is executed, and what is written for it is a status
\* response with the digits of its code
C5_Answered ==
    \A p \in produced :
        p.by = "failure" =>
            /\ p.resp.stream_id \notin executed
            /\ p.resp.response.status.code \in {13, 14}
            /\ \A f \in Range(FramesOf(ChunkBytes(dwire), p.resp.stream_id)) :
                  HasStatusDigits(f.payload, p.resp.response.status.code)

\* C5: a request whose worker channel is full is not executed and is answered
\* with Unavailable (14), one whose worker channel is closed with Internal
\* (13); the connection stays open.
C5_DispatchFailureStatus == [][C5_Step]_vars /\ []C5_Answered

\* stream 3 was refused with 14 while the worker was busy, then stream 5 was
\* executed by the worker and its response written
C5_Witness ==
    /\ \E p \in produced :
          /\ p.by = "failure" /\ p.resp.stream_id = 3
          /\ p.resp.response.status.code = 14
          /\ 3 \in WrittenIds
    /\ 5 \in executed
    /\ 5 \in WrittenIds

(***************************************************************************)
(* connection.rs: one connection served by `handle` for a server that has  *)
(* a local-mode service and a dispatch-mode service.  `handle` starts the  *)
(* response routine on a clone of c2 because one service is dispatch-mode, *)
(* and keeps the thread-local RESPONSE_END on c2 for itself (in_end).      *)
(* Every write locks the shared TcpStream, so dwire is a sequence of whole *)
(* writes.                                                                 *)
(***************************************************************************)

\* the input thread after a build or flush on RESPONSE_END (b): an error of
\* the write leaves `handle` through `?`
SharedWrote(b) ==
    /\ in_end' = b.re
    /\ dwire' = dwire \o Chunk("input", b.wrote)
    /\ in_pc' = IF b.ok THEN "run" ELSE "closed"
    /\ dwrite_failed' = (dwrite_failed \/ ~b.ok)

\* local_build_response / the dispatch-failure response: built by the
\* RESPONSE_END of the input thread
SharedBuild(req, response, by) ==
    /\ produced' = produced \cup
           {[resp |-> DispatchResponse(req.stream_id, req.req_data_len, response), by |-> by]}
    /\ \E wok \in BOOLEAN :
          SharedWrote(build(in_end, req.stream_id, response, req.req_data_len, wok))

\* DispatchCtx::dispatch: try_send to the worker, a failure becomes a Status
SharedDispatch(to, req, sent) ==
    IF sent.res = "Ok"
    THEN /\ req_chan' = [req_chan EXCEPT ![to] = sent.chan]
         /\ UNCHANGED << in_pc, in_end, dwire, dwrite_failed, produced >>
    ELSE /\ SharedBuild(req, [ok |-> FALSE, status |-> failure_status(sent.res)], "failure")
         /\ UNCHANGED req_chan

\* handle, FrameKind::Data => services[isvc].handle(..) for the next request:
\* `to` = 0 is the local-mode service, a worker is where the dispatch-mode
\* service sends the request
SharedCall ==
    /\ UNCHANGED << lvars, pvars >>
    /\ in_pc = "run"
    /\ nreq < MaxRequests
    /\ \E to \in Workers \cup {0} :
          LET req == [stream_id |-> 2 * nreq + 1, req_data_len |-> DataLen(2 * nreq + 1),
                      to |-> to]
          IN  /\ handed' = Append(handed, req)
              /\ IF to # 0
                 THEN SharedDispatch(to, req,
                          try_send(req_chan[to], worker_alive[to], ReqCap, req))
                 ELSE /\ \E response \in Replies : SharedBuild(req, response, "local")
                      /\ UNCHANGED req_chan
    /\ nreq' = nreq + 1
    /\ UNCHANGED << in_pending, worker_alive, worker_resp, resp_chan, out_pc, out_resp, out_end,
                    executed >>

\* handle, after the frames of one read: RESPONSE_END flush
SharedEndBurst ==
    /\ UNCHANGED << lvars, pvars >>
    /\ in_pc = "run"
    /\ \E wok \in BOOLEAN : SharedWrote(flush(in_end, wok))
    /\ UNCHANGED << in_pending, nreq, req_chan, worker_alive, worker_resp, resp_chan, out_pc, out_resp,
                    out_end, handed, produced, executed >>

NextShared ==
    \/ SharedCall
    \/ SharedEndBurst
    \/ InputClose
    \/ \E w \in Workers : WorkerHandle(w)
    \/ \E w \in Workers : WorkerSend(w)
    \/ \E w \in Workers : WorkerStop(w)
    \/ OutTryRecv
    \/ OutRecv
    \/ OutBuild

SpecShared == Init /\ [][NextShared]_vars

\* C3: in Dispatch mode every write to the socket after the handshake is made
\* by the output thread, so that one HPACK encoder has encoded every response
\* header block on the wire.
C3_OnlyOutputWrites == \A i \in 1..Len(dwire) : dwire[i].by = "output"

(***************************************************************************)
(* The Local-mode engine serving a client that sends requests only: HEADERS *)
(* of three streams and DATA of two of them, in any order.                 *)
(***************************************************************************)
\* frames the request client sends on a connection
MaxCallFrames == 4

\* HEADERS of streams 1, 3 and 5 with the paths "a", "b" and "a" again as
\* literals without indexing, DATA of streams 1 and 3
CallFrames ==
    { build_head(3, KindHeaders, END_HEADERS, 1) \o <<4, 1, 97>>,
      build_head(3, KindHeaders, END_HEADERS, 3) \o <<4, 1, 98>>,
      build_head(3, KindHeaders, END_HEADERS, 5) \o <<4, 1, 97>>,
      build_head(5, KindData, 0, 1) \o <<0, 0, 0, 0, 0>>,
      build_head(6, KindData, END_STREAM, 3) \o <<0, 0, 0, 0, 1, 7>> }

\* the request client sends one frame
ClientSendCall ==
    /\ UNCHANGED << dvars, pvars >>
    /\ pc = "read" /\ ~peer_closed
    /\ nsent >= 1 /\ nsent <= MaxCallFrames
    /\ \E f \in CallFrames : sock' = sock \o f
    /\ nsent' = nsent + 1
    /\ UNCHANGED << pc, err, peer_closed, input, last_end, fin, pos, streams, hpack_decoder,
                    route_cache, resp_end, wire, write_failed, consumed, frames_log, built >>

\* c.read(&mut input[last_end..]) returns every byte that has arrived, as far
\* as the buffer has room: the request client's frames arrive whole
ReadAll ==
    /\ UNCHANGED << dvars, pvars >>
    /\ pc = "read"
    /\ sock # <<>> /\ last_end < max_frame_size
    /\ LET len == Min(max_frame_size - last_end, Len(sock))
       IN  /\ input' = [i \in 1..max_frame_size |->
                           IF last_end < i /\ i <= last_end + len
                           THEN sock[i - last_end] ELSE input[i]]
           /\ fin' = last_end + len
           /\ consumed' = consumed \o Take(sock, len)
           /\ sock' = Drop(sock, len)
    /\ pos' = 0
    /\ pc' = "parse"
    /\ UNCHANGED << err, peer_closed, nsent, last_end, streams, hpack_decoder, route_cache,
                    resp_end, wire, write_failed, frames_log, built >>

NextCalls ==
    \/ ClientPreface
    \/ ClientSendCall
    \/ ClientClose
    \/ Handshake
    \/ ReadAll
    \/ ReadEnd
    \/ ProcessFrame
    \/ EndBurst

SpecCalls == Init /\ [][NextCalls]_vars

(***************************************************************************)
(* Claims on the Local-mode engine serving requests (SpecCalls).           *)
(***************************************************************************)
RECURSIVE SumSeq(_)
SumSeq(q) == IF q = <<>> THEN 0 ELSE q[1] + SumSeq(Tail(q))

\* the WINDOW_UPDATE frames of a byte stream, in order
WindowUpdates(bytes) == SelectSeq(ParseAll(bytes), LAMBDA f : f.kind = KindWindowUpdate)

\* the increments of the WINDOW_UPDATE frames of a byte stream, in order
Increments(bytes) ==
    [i \in 1..Len(WindowUpdates(bytes)) |-> parse_u32(WindowUpdates(bytes)[i].payload)]

\* the payload lengths of the DATA frames among fs, in order
DataLens(fs) ==
    LET ds == SelectSeq(fs, LAMBDA f : f.kind = KindData)
    IN  [i \in 1..Len(ds) |-> ds[i].len]

\* C11: in Local mode, whenever the engine is back at a read, the increments
\* of all WINDOW_UPDATE frames written so far add up to the payload lengths of
\* all DATA frames processed so far; as this holds before and after every
\* successful burst, the increments written during a burst add up to the
\* payload lengths of the DATA frames of that burst.
C11_WindowUpdatePerBurst ==
    pc = "read" => SumSeq(Increments(wire)) = SumSeq(DataLens(frames_log))

\* the DATA frames of streams 1 and 3 were processed in one burst that flushed
\* once, at the request threshold: one WINDOW_UPDATE returns 5 + 6 bytes
C11_Witness ==
    /\ pc = "read"
    /\ DataLens(frames_log) = <<5, 6>>
    /\ Increments(wire) = <<11>>

\* the bytes are whole frames of which exactly one is a WINDOW_UPDATE, the
\* last, on stream 0 with the given increment
OneWindowUpdate(bytes, increment) ==
    /\ FramesSize(ParseAll(bytes)) = Len(bytes)
    /\ Len(WindowUpdates(bytes)) = 1
    /\ ParseAll(bytes)[Len(ParseAll(bytes))].kind = KindWindowUpdate
    /\ WindowUpdates(bytes)[1].stream_id = 0
    /\ WindowUpdates(bytes)[1].len = 4
    /\ Increments(bytes) = <<increment>>

\* what ResponseEnd::flush does to the response end re when the write
\* succeeds and when it fails
C12_Flush(re) ==
    /\ re.output = <<>> => \A wok \in BOOLEAN : flush(re, wok) = ReOut(re, <<>>, TRUE)
    /\ re.output # <<>> =>
          /\ flush(re, TRUE).ok
          /\ IsPrefix(re.output, flush(re, TRUE).wrote)
          /\ OneWindowUpdate(flush(re, TRUE).wrote, re.req_data_len)
          /\ flush(re, TRUE).re.output = <<>>
          /\ flush(re, TRUE).re.req_count = 0
          /\ flush(re, TRUE).re.req_data_len = 0
          /\ flush(re, TRUE).re.hpack_encoder = re.hpack_encoder
          /\ ~flush(re, FALSE).ok
          /\ flush(re, FALSE).wrote = <<>>
          /\ flush(re, FALSE).re.req_count = re.req_count
          /\ flush(re, FALSE).re.req_data_len = re.req_data_len

\* the DATA payload length that a step adds to req_data_len
StepDataLen == IF built' # built THEN CurFrame[1].len ELSE 0

\* a step of the engine that writes after the handshake writes one flush: the
\* buffered responses and one WINDOW_UPDATE of the req_data_len reached, and
\* leaves buffer and counters at zero; a flush with nothing buffered and a
\* failed write put nothing on the wire
C12_Step ==
    /\ (pc = "parse" /\ wire' # wire) =>
          /\ IsPrefix(wire, wire')
          /\ OneWindowUpdate(Drop(wire', Len(wire)), resp_end.req_data_len + StepDataLen)
          /\ resp_end'.output = <<>>
          /\ resp_end'.req_count = 0
          /\ resp_end'.req_data_len = 0
    /\ (pc = "parse" /\ CurFrame = NoneV /\ resp_end.output = <<>>) =>
          wire' = wire /\ resp_end' = resp_end
    /\ (write_failed' /\ ~write_failed) => wire' = wire /\ resp_end' = resp_end

\* C12: a flush of a non-empty response buffer writes the buffer followed by
\* exactly one WINDOW_UPDATE on stream 0 whose increment is req_data_len, in
\* one write, and clears the buffer, req_count and req_data_len together; a
\* flush of an empty buffer writes nothing; a failed write resets nothing.
C12_FlushWindowUpdate == [][C12_Step]_vars /\ []C12_Flush(resp_end)

\* a threshold flush has returned 5 bytes and the next response of the burst
\* is in the buffer, waiting for the flush at the end of the burst
C12_Witness ==
    /\ pc = "parse"
    /\ Increments(wire) = <<5>>
    /\ resp_end.req_count = 1 /\ resp_end.req_data_len = 6

\* the response end holds req_count responses, fewer than max_flush_requests,
\* in fewer than max_flush_size bytes
BelowThresholds(re) ==
    /\ re.req_count < max_flush_requests
    /\ Len(re.output) < max_flush_size
    /\ Len(ResponseIds(re.output)) = re.req_count

\* C13: the response buffer is flushed as soon as a threshold is reached:
\* after every build that returned successfully it holds fewer than
\* max_flush_requests responses and fewer than max_flush_size bytes.
C13_FlushAtThreshold ==
    /\ BelowThresholds(resp_end)
    /\ \A response \in Replies, wok \in BOOLEAN :
          build(resp_end, 1, response, 5, wok).ok =>
              BelowThresholds(build(resp_end, 1, response, 5, wok).re)

\* the first Ok response alone reached max_flush_size: it was written by its
\* build, before the end of the burst, with req_count below max_flush_requests
C13_Witness ==
    /\ pc = "parse"
    /\ Len(built) = 1 /\ built[1].ok
    /\ max_flush_requests > 1
    /\ ResponseIds(wire) = BuiltIds
    /\ resp_end.output = <<>> /\ resp_end.req_count = 0

(***************************************************************************)
(* The Local-mode engine serving a client that also sends header blocks     *)
(* with two :path fields, unknown paths and malformed frames.              *)
(***************************************************************************)
\* frames this client sends on a connection
MaxPathFrames == 3

\* HEADERS with the path "a" (stream 1), "b" (stream 3) and with the two
\* fields :path "a", :path "b" (stream 5); DATA of stream 1 with a request
\* and with no payload; HEADERS with the unrouted path "c", with END_STREAM
\* and without END_HEADERS; a padded DATA frame that carries 2 bytes; a
\* CONTINUATION frame with the path "b"; HEADERS with the two fields
\* :path "c", :path "a"
PathFrames ==
    { build_head(3, KindHeaders, END_HEADERS, 1) \o <<4, 1, 97>>,
      build_head(3, KindHeaders, END_HEADERS, 3) \o <<4, 1, 98>>,
      build_head(6, KindHeaders, END_HEADERS, 5) \o <<4, 1, 97, 4, 1, 98>>,
      build_head(5, KindData, 0, 1) \o <<0, 0, 0, 0, 0>>,
      build_head(0, KindData, 0, 1),
      build_head(3, KindHeaders, END_HEADERS, 3) \o <<4, 1, 99>>,
      build_head(3, KindHeaders, END_HEADERS + END_STREAM, 1) \o <<4, 1, 97>>,
      build_head(3, KindHeaders, 0, 1) \o <<4, 1, 97>>,
      build_head(5, KindData, PADDED, 1) \o <<2, 0, 0, 9, 9>>,
      build_head(3, KindContinuation, END_HEADERS, 1) \o <<4, 1, 98>>,
      build_head(6, KindHeaders, END_HEADERS, 5) \o <<4, 1, 99, 4, 1, 97>> }

\* this client sends one frame
ClientSendPath ==
    /\ UNCHANGED << dvars, pvars >>
    /\ pc = "read" /\ ~peer_closed
    /\ nsent >= 1 /\ nsent <= MaxPathFrames
    /\ \E f \in PathFrames : sock' = sock \o f
    /\ nsent' = nsent + 1
    /\ UNCHANGED << pc, err, peer_closed, input, last_end, fin, pos, streams, hpack_decoder,
                    route_cache, resp_end, wire, write_failed, consumed, frames_log, built >>

NextPaths ==
    \/ ClientPreface
    \/ ClientSendPath
    \/ ClientClose
    \/ Handshake
    \/ Read
    \/ ReadEnd
    \/ ProcessFrame
    \/ EndBurst

SpecPaths == Init /\ [][NextPaths]_vars

(***************************************************************************)
(* Claims on the route cache and on malformed frames (SpecPaths).          *)
(***************************************************************************)
\* C15: while the connection is served, the route cache holds as many routes
\* as the decoder has minted cache indices, so that the index of every
\* Cached result is an index of the route cache and no lookup is out of range
C15_RouteCacheInSync ==
    /\ pc \in {"read", "parse"} => Len(route_cache) = hpack_decoder.next_cache_index
    /\ err # "panic"

\* q occurs in s as a run of consecutive elements
IsInfix(q, s) == \E i \in 0..(Len(s) - Len(q)) : SubSeq(s, i + 1, i + Len(q)) = q

\* the header block is one :path field that an earlier HEADERS frame of the
\* connection carried with the same encoding
SentAgain(block) ==
    /\ find_path(Decoder_new, block).res.tag = "Plain"
    /\ field(Decoder_new, block, PathErr("NoPathSet"), Representation_load(block[1])).ok
    /\ field(Decoder_new, block, PathErr("NoPathSet"), Representation_load(block[1])).adv
          = Len(block)
    /\ \E i \in 1..Len(frames_log) :
          /\ frames_log[i].kind = KindHeaders
          /\ process_headers(frames_log[i]).ok
          /\ IsInfix(block, process_headers(frames_log[i]).buf)

\* the slot a HEADERS frame leaves when its path is routed by the services
RoutedSlot(frame, path) ==
    [id       |-> frame.stream_id,
     isvc     |-> first_route(path)[1][1],
     req_disc |-> first_route(path)[1][2]]

C14_Step ==
    (/\ pc = "parse" /\ CurFrame # NoneV
     /\ CurFrame[1].kind = KindHeaders
     /\ process_headers(CurFrame[1]).ok
     /\ process_headers(CurFrame[1]).buf # <<>>
     /\ SentAgain(process_headers(CurFrame[1]).buf))
    => /\ pc' = "parse"
       /\ route_cache' = route_cache
       /\ streams' = Append(streams,
              RoutedSlot(CurFrame[1],
                         find_path(Decoder_new, process_headers(CurFrame[1]).buf).res.path))

\* C14: a HEADERS frame whose :path was sent before with the same encoding is
\* served from the route cache (nothing is appended to it) and its stream gets
\* the (service, method) pair the services resolve for that path, the same at
\* every occurrence
C14_RepeatedPathSameRoute == [][C14_Step]_vars

\* bit `bit` (a power of two) of the flags byte
FlagSet(flags, bit) == (flags \div bit) % 2 = 1

\* the frame at the parse position is a HEADERS frame that does not end the
\* header block or that ends the stream
BadHeaders ==
    /\ pc = "parse" /\ CurFrame # NoneV
    /\ CurFrame[1].kind = KindHeaders
    /\ ~FlagSet(CurFrame[1].flags, END_HEADERS) \/ FlagSet(CurFrame[1].flags, END_STREAM)

C16_Step ==
    /\ BadHeaders =>
          /\ pc' = "failed"
          /\ err' \in {"multiple HEADERS frames", "HEADERS frame with no DATA"}
          /\ UNCHANGED << streams, route_cache, hpack_decoder, resp_end, built, wire >>
    /\ pc = "failed" =>
          /\ pc' = "failed"
          /\ UNCHANGED << err, frames_log, pos, streams, route_cache, hpack_decoder,
                          resp_end, built, wire >>

\* C16: a HEADERS frame without END_HEADERS or with END_STREAM ends the
\* connection with an InvalidHttp2 error; it opens no slot and builds or
\* writes no response, and once the connection has failed no frame is taken
\* and nothing is written any more, whatever follows in the input
C16_BadHeadersFatal == [][C16_Step]_vars

\* both bad HEADERS frames have ended a connection, one of them with a
\* CONTINUATION frame behind it in the same burst that is never taken
C16_Witness ==
    /\ pc = "failed" /\ err = "multiple HEADERS frames"
    /\ Len(frames_log) = 2
    /\ frames_log[1].kind = KindHeaders /\ Len(streams) = 1
    /\ frames_log[2].kind = KindHeaders /\ ~FlagSet(frames_log[2].flags, END_HEADERS)
    /\ CurFrame # NoneV /\ CurFrame[1].kind = KindContinuation
    /\ built = <<>>

\* the services that route the path, by their place in the list
Routers(path) == {i \in 1..Len(services) : route(services[i], path) # NoneV}

\* the frame at the parse position is a well-formed HEADERS frame
GoodHeaders ==
    /\ pc = "parse" /\ CurFrame # NoneV
    /\ CurFrame[1].kind = KindHeaders
    /\ FlagSet(CurFrame[1].flags, END_HEADERS) /\ ~FlagSet(CurFrame[1].flags, END_STREAM)
    /\ CurFrame[1].flags = END_HEADERS
    /\ find_path(Decoder_new, CurFrame[1].payload).res.tag = "Plain"

\* the :path of the request that frame opens
HeadersPath == find_path(Decoder_new, CurFrame[1].payload).res.path

\* a HEADERS frame whose path no service routes ends the connection
C17_Unrouted ==
    (GoodHeaders /\ Routers(HeadersPath) = {}) =>
        /\ pc' = "failed" /\ err' = "UnknownMethod"
        /\ UNCHANGED << route_cache, streams, resp_end, built, wire >>

\* a HEADERS frame whose path is routed opens a slot with the first service
\* that routes it and with the method that service returns
C17_Routed ==
    (GoodHeaders /\ Routers(HeadersPath) # {}) =>
        \E k \in Routers(HeadersPath) :
            /\ \A j \in Routers(HeadersPath) : k <= j
            /\ pc' = "parse"
            /\ streams' = Append(streams, [id       |-> CurFrame[1].stream_id,
                                           isvc     |-> k - 1,
                                           req_disc |-> route(services[k], HeadersPath)[1]])

\* C17: a HEADERS frame whose :path no service routes is fatal with
\* UnknownMethod and leaves the route cache, the slots and the responses as
\* they are; a HEADERS frame with a routable :path gets the (service, method)
\* of the first service, in insertion order, that routes it
C17_UnknownMethodFatal == [][C17_Unrouted /\ C17_Routed]_vars

\* the frame at the parse position is a DATA frame whose padding, if any, is
\* well-formed
DataFrame ==
    /\ pc = "parse" /\ CurFrame # NoneV
    /\ CurFrame[1].kind = KindData
    /\ FlagSet(CurFrame[1].flags, PADDED) =>
          CurFrame[1].len >= 1 /\ CurFrame[1].len > 1 + CurFrame[1].payload[1]

\* the number of payload bytes of that frame once the pad length byte and the
\* padding are taken off
StrippedLen ==
    IF FlagSet(CurFrame[1].flags, PADDED)
    THEN CurFrame[1].len - 1 - CurFrame[1].payload[1]
    ELSE CurFrame[1].len

C18_Step ==
    (/\ DataFrame
     /\ \/ StrippedLen \in 1..4
        \/ StrippedLen >= 1 /\ \A i \in 1..Len(streams) : streams[i].id # CurFrame[1].stream_id)
    => /\ pc' = "failed"
       /\ err' \in {"DATA frame too short for grpc", "DATA frame without HEADER"}
       /\ UNCHANGED << streams, route_cache, hpack_decoder, resp_end, built, wire >>

\* C18: a DATA frame that carries 1 to 4 bytes once its padding is removed,
\* or a non-empty DATA frame for a stream without a pending slot, ends the
\* connection with an InvalidHttp2 error: no handler runs, no response is
\* built or written, the slots stay as they are
C18_BadDataFatal == [][C18_Step]_vars

\* a padded DATA frame of 5 raw bytes that carries 2 has ended a connection
\* on which its stream had a pending slot
C18_Witness ==
    /\ pc = "failed" /\ err = "DATA frame too short for grpc"
    /\ Len(frames_log) = 2
    /\ frames_log[2].kind = KindData /\ frames_log[2].len = 5
    /\ FlagSet(frames_log[2].flags, PADDED)
    /\ Slots(streams, frames_log[2].stream_id) = 1
    /\ built = <<>>

C19_Step ==
    (DataFrame /\ StrippedLen = 0) =>
        /\ pc' = "parse"
        /\ pos' = pos + HEAD_SIZE
        /\ UNCHANGED << err, streams, route_cache, hpack_decoder, resp_end, built, wire,
                        write_failed >>

Without(q, i) == [j \in 1..(Len(q) - 1) |-> IF j < i THEN q[j] ELSE q[j + 1]]

\* slots are opened by HEADERS frames only, at the back of the queue, with the
\* stream id of the frame
C20_Push ==
    Len(streams') > Len(streams) =>
        /\ pc = "parse" /\ CurFrame # NoneV /\ CurFrame[1].kind = KindHeaders
        /\ Len(streams') = Len(streams) + 1
        /\ SubSeq(streams', 1, Len(streams)) = streams
        /\ streams'[Len(streams')].id = CurFrame[1].stream_id

C20_Step ==
    (/\ pc = "parse" /\ CurFrame # NoneV
     /\ CurFrame[1].kind = KindData /\ CurFrame[1].len >= 5
     /\ ~FlagSet(CurFrame[1].flags, PADDED)
     /\ \E i \in 1..Len(streams) : streams[i].id = CurFrame[1].stream_id)
    => \E i \in 1..Len(streams) :
          /\ streams[i].id = CurFrame[1].stream_id
          /\ streams' = Without(streams, i)
          /\ \/ built' = built
             \/ /\ Len(built') = Len(built) + 1
                /\ SubSeq(built', 1, Len(built)) = built
                /\ built'[Len(built')].id = CurFrame[1].stream_id
                /\ built'[Len(built')].isvc = streams[i].isvc
                /\ built'[Len(built')].req_disc = streams[i].req_disc

\* C20: a DATA frame with a request, for a stream that has a pending slot, is
\* handled whatever its place among the pending streams: a slot of its own
\* stream id, which holds the (service, method) stored by a HEADERS frame of
\* that stream, is the only one removed, the other slots keep their order,
\* and the response is built by that service and method for that stream
C20_OutOfOrderData == [][C20_Step /\ C20_Push]_vars

\* streams 1, 3 and 5 were pending, in this order, when the request of
\* stream 3 came: it was answered by service 1, streams 1 and 5 are pending
C20_Witness ==
    /\ pc = "parse"
    /\ Len(frames_log) = 4
    /\ [i \in 1..Len(streams) |-> streams[i].id] = <<1, 5>>
    /\ Len(built) = 1
    /\ built[1].id = 3 /\ built[1].isvc = 1 /\ built[1].req_disc = 0
    /\ streams[1].isvc = 0

(***************************************************************************)
(* The Local-mode engine serving a client that sends frames of every kind. *)
(***************************************************************************)
\* frames this client sends on a connection
MaxKindFrames == 3

\* a frame type byte that FrameKind::from does not know
UnknownKindByte == 200

\* HEADERS and a request of stream 1, and one frame of every other kind, on
\* stream 1 where the kind allows it and with payloads that would act if
\* they were taken as a header block or as a request
KindFrames ==
    { build_head(3, KindHeaders, END_HEADERS, 1) \o <<4, 1, 97>>,
      build_head(5, KindData, 0, 1) \o <<0, 0, 0, 0, 0>>,
      build_head(2, KindSettings, 0, 0) \o <<0, 0>>,
      build_head(5, KindPriority, 0, 1) \o <<0, 0, 0, 0, 0>>,
      build_head(4, KindReset, 0, 1) \o <<0, 0, 0, 8>>,
      build_head(3, KindPushPromise, END_HEADERS, 1) \o <<4, 1, 98>>,
      build_head(5, KindPing, 0, 0) \o <<0, 0, 0, 0, 0>>,
      build_head(5, KindGoAway, 0, 0) \o <<0, 0, 0, 0, 0>>,
      build_head(4, KindWindowUpdate, 0, 1) \o <<0, 0, 0, 9>>,
      build_head(3, KindContinuation, END_HEADERS, 1) \o <<4, 1, 98>>,
      build_head(5, UnknownKindByte, 0, 1) \o <<0, 0, 0, 0, 0>> }

\* this client sends one frame
ClientSendKind ==
    /\ UNCHANGED << dvars, pvars >>
    /\ pc = "read" /\ ~peer_closed
    /\ nsent >= 1 /\ nsent <= MaxKindFrames
    /\ \E f \in KindFrames : sock' = sock \o f
    /\ nsent' = nsent + 1
    /\ UNCHANGED << pc, err, peer_closed, input, last_end, fin, pos, streams, hpack_decoder,
                    route_cache, resp_end, wire, write_failed, consumed, frames_log, built >>

NextKinds ==
    \/ ClientPreface
    \/ ClientSendKind
    \/ ClientClose
    \/ Handshake
    \/ ReadAll
    \/ ReadEnd
    \/ ProcessFrame
    \/ EndBurst

SpecKinds == Init /\ [][NextKinds]_vars

(***************************************************************************)
(* Claims on frames of other kinds (SpecKinds).                            *)
(***************************************************************************)
\* the frame at the parse position has a type byte other than DATA (0) and
\* HEADERS (1)
OtherKind ==
    /\ pc = "parse" /\ CurFrame # NoneV
    /\ input[pos + 4] \notin {0, 1}

C21_Step ==
    OtherKind =>
        /\ pc' = "parse"
        /\ pos' = pos + HEAD_SIZE + CurFrame[1].len
        /\ UNCHANGED << err, streams, hpack_decoder, route_cache, resp_end, wire, built,
                        write_failed >>

\* C21: taking a frame whose kind is neither HEADERS nor DATA only moves the
\* parse position past it: the slots, the decoder, the route cache and the
\* response buffer stay as they are and nothing is written
C21_OtherKindsIgnored == [][C21_Step]_vars

\* after the HEADERS of stream 1, a CONTINUATION frame and a frame of an
\* unknown kind were taken: one slot, no response, only the SETTINGS written
C21_Witness ==
    /\ pc = "parse"
    /\ Len(frames_log) = 3
    /\ frames_log[1].kind = KindHeaders
    /\ frames_log[2].kind = KindContinuation
    /\ frames_log[3].kind = FrameKind_from(UnknownKindByte)
    /\ Len(streams) = 1 /\ built = <<>>
    /\ hpack_decoder.next_cache_index = 1 /\ Len(route_cache) = 1
    /\ Len(ParseAll(wire)) = 2

C22_Step ==
    (/\ pc = "parse" /\ CurFrame # NoneV
     /\ input[pos + 4] = KindReset)
    => Slots(streams', CurFrame[1].stream_id) = 0

\* C22: once an RST_STREAM frame is taken, no pending slot is left for its
\* stream
C22_ResetEvictsSlot == [][C22_Step]_vars

(***************************************************************************)
(* Claims on handler results (SpecCalls).                                  *)
(***************************************************************************)
\* the bytes a step adds to what is written or waits in the response buffer
Emitted == Drop(wire' \o resp_end'.output, Len(wire \o resp_end.output))

\* a step in which a handler has answered and the response was built
Answered ==
    /\ pc = "parse" /\ CurFrame # NoneV
    /\ Len(built') = Len(built) + 1
    /\ ~write_failed'

\* a step that answers leaves the connection going, takes the slot of the
\* stream and nothing else, whatever the handler returned
C23_Continues ==
    Answered =>
        /\ pc' = "parse" /\ err' = err
        /\ \E i \in 1..Len(streams) :
              /\ streams[i].id = CurFrame[1].stream_id
              /\ streams' = Without(streams, i)
        /\ UNCHANGED << hpack_decoder, route_cache >>

\* an Err(Status) is sent as one HEADERS frame on the stream, with the code
\* and the message of the status
C23_StatusSent ==
    (Answered /\ ~built'[Len(built')].ok) =>
        /\ Len(FramesOf(Emitted, CurFrame[1].stream_id)) = 1
        /\ FramesOf(Emitted, CurFrame[1].stream_id)[1].kind = KindHeaders
        /\ \E r \in Replies :
              /\ ~r.ok
              /\ IsInfix(<<1, 48 + r.status.code>>,
                         FramesOf(Emitted, CurFrame[1].stream_id)[1].payload)
              /\ IsInfix(<<Len(r.status.message)>> \o r.status.message,
                         FramesOf(Emitted, CurFrame[1].stream_id)[1].payload)

\* C23: a handler that returns Err(Status) does not end the connection: the
\* stream is answered with one HEADERS frame carrying the status, its slot is
\* taken as for a reply, and the other slots, the decoder and the route cache
\* are what they would be after a reply
C23_StatusNotFatal == [][C23_Continues /\ C23_StatusSent]_vars

\* stream 1 was answered with a status and then stream 3 with a reply
C23_Witness ==
    /\ pc = "parse"
    /\ Len(built) = 2
    /\ built[1].id = 1 /\ ~built[1].ok
    /\ built[2].id = 3 /\ built[2].ok
    /\ streams = <<>>
    /\ ResponseIds(wire \o resp_end.output) = <<1, 3>>

(***************************************************************************)
(* Claims on the handshake (SpecKinds).                                    *)
(***************************************************************************)
\* a 32-bit value in network byte order
U32(v) == << v \div 16777216, (v \div 65536) % 256, (v \div 256) % 256, v % 256 >>

\* the bytes start with the two SETTINGS frames of the server: identifier 3
\* with max_concurrent_streams and identifier 5 with max_frame_size
StartsWithSettings(bytes) ==
    /\ Len(ParseAll(bytes)) >= 2
    /\ \A i \in 1..2 :
          /\ ParseAll(bytes)[i].kind = KindSettings
          /\ ParseAll(bytes)[i].stream_id = 0
    /\ ParseAll(bytes)[1].payload = <<0, 3>> \o U32(max_concurrent_streams)
    /\ ParseAll(bytes)[2].payload = <<0, 5>> \o U32(max_frame_size)

\* the bytes the server's read takes from the socket in a step
ReadBytes == Take(sock, Len(sock) - Len(sock'))

\* the step that ends the handshake
C24_Step ==
    (pc = "handshake" /\ pc' # "handshake") =>
        /\ wire = <<>> /\ frames_log' = <<>>
        /\ IF ReadBytes = Preface /\ ~write_failed'
           THEN pc' = "read" /\ StartsWithSettings(wire') /\ Len(wire') = 2 * (HEAD_SIZE + 6)
           ELSE pc' = "failed" /\ wire' = <<>>

C24_State ==
    /\ wire # <<>> => StartsWithSettings(wire)
    /\ pc = "handshake" => wire = <<>>
    /\ (pc = "failed" /\ err \in {"too short handshake", "invalid handshake message"}) =>
          wire = <<>> /\ frames_log = <<>> /\ streams = <<>> /\ built = <<>>

\* C24: nothing is written unless the first read returns the 24 bytes of the
\* client preface; then the first bytes written are the SETTINGS frames with
\* identifier 3 (max_concurrent_streams) and identifier 5 (max_frame_size);
\* when the first read returns anything else the connection ends, no frame
\* is taken and nothing is written
C24_Handshake == [][C24_Step]_vars /\ []C24_State

\* a connection whose first read returned the preface: the two SETTINGS
\* frames are all that is written when the first frame has been taken
C24_Witness ==
    /\ pc = "parse" /\ Len(frames_log) = 1
    /\ StartsWithSettings(wire)
    /\ Len(wire) = 2 * (HEAD_SIZE + 6)

(***************************************************************************)
(* The accept loops: serve_with_config, one thread per connection          *)
(* (connection.rs), and serve_local, which hands the connections to the    *)
(* poll workers (lib.rs, poll.rs, local_server.rs).                        *)
(***************************************************************************)
\* the accept loop is run by this function
Entered(entry) == server.entry \in {"none", entry}

\* serve_with_config: `for c in listener.incoming()` with the counter at or
\* above the limit: `continue` drops the connection
AcceptDrop(c) ==
    /\ UNCHANGED << lvars, dvars, config, config_call, hp, he, app >>
    /\ Entered("serve_with_config") /\ server.at = "accept"
    /\ conns[c] = "new"
    /\ server.concurrent >= max_concurrent_connections
    /\ conns' = [conns EXCEPT ![c] = "dropped"]
    /\ server' = [server EXCEPT !.entry = "serve_with_config"]

\* serve_with_config: the counter was below the limit when it was loaded
AcceptLoad(c) ==
    /\ UNCHANGED << lvars, dvars, config, config_call, hp, he, app >>
    /\ Entered("serve_with_config") /\ server.at = "accept"
    /\ conns[c] = "new"
    /\ server.concurrent < max_concurrent_connections
    /\ conns' = [conns EXCEPT ![c] = "admitting"]
    /\ server' = [server EXCEPT !.entry = "serve_with_config", !.at = "admit", !.cur = c]

\* serve_with_config: fetch_add, then `c?` and the timeouts, then the thread
\* is spawned; an error of the accept or of a setsockopt returns from
\* serve_with_config
AcceptSpawn ==
    /\ UNCHANGED << lvars, dvars, config, config_call, hp, he, app >>
    /\ server.at = "admit"
    /\ \E ok \in BOOLEAN :
          /\ conns' = [conns EXCEPT ![server.cur] = IF ok THEN "running" ELSE "dropped"]
          /\ server' = [server EXCEPT !.at = IF ok THEN "accept" ELSE "returned",
                                      !.cur = 0,
                                      !.concurrent = @ + 1]

\* the connection thread: `handle` has returned, Ok or Err, then fetch_sub
ThreadEnd(c) ==
    /\ UNCHANGED << lvars, dvars, config, config_call, hp, he, app >>
    /\ conns[c] = "running"
    /\ conns' = [conns EXCEPT ![c] = "ended"]
    /\ server' = [server EXCEPT !.concurrent = @ - 1]

\* the connection thread: `handle` has panicked (route_cache[cached] out of
\* range); the thread unwinds and the fetch_sub after `handle` is not run
ThreadPanic(c) ==
    /\ UNCHANGED << lvars, dvars, config, config_call, hp, he, app >>
    /\ conns[c] = "running"
    /\ conns' = [conns EXCEPT ![c] = "panicked"]
    /\ UNCHANGED server

\* serve_local: every connection is sent to a poll worker; the comparison
\* with max_concurrent_connections is commented out
AcceptLocal(c) ==
    /\ UNCHANGED << lvars, dvars, config, config_call, hp, he, app >>
    /\ Entered("serve_local") /\ server.at = "accept"
    /\ conns[c] = "new"
    /\ \E ok \in BOOLEAN :
          /\ conns' = [conns EXCEPT ![c] = IF ok THEN "queued" ELSE "dropped"]
          /\ server' = [server EXCEPT !.entry = "serve_local",
                                      !.at = IF ok THEN "accept" ELSE "returned"]

\* poll::worker_thread, the WAKER token: LocalConnection::new counts the
\* connection, which is registered and put into the slab
WorkerRegister(c) ==
    /\ UNCHANGED << lvars, dvars, config, config_call, hp, he, app >>
    /\ conns[c] = "queued"
    /\ conns' = [conns EXCEPT ![c] = "polled"]
    /\ server' = [server EXCEPT !.concurrent = @ + 1]

\* poll::worker_thread: slab.remove(token) drops the connection, and the Drop
\* of LocalConnection does fetch_sub
WorkerRemove(c) ==
    /\ UNCHANGED << lvars, dvars, config, config_call, hp, he, app >>
    /\ conns[c] = "polled"
    /\ conns' = [conns EXCEPT ![c] = "ended"]
    /\ server' = [server EXCEPT !.concurrent = @ - 1]

NextServe ==
    \/ \E c \in ConnIds : AcceptDrop(c)
    \/ \E c \in ConnIds : AcceptLoad(c)
    \/ AcceptSpawn
    \/ \E c \in ConnIds : ThreadEnd(c)
    \/ \E c \in ConnIds : ThreadPanic(c)
    \/ \E c \in ConnIds : AcceptLocal(c)
    \/ \E c \in ConnIds : WorkerRegister(c)
    \/ \E c \in ConnIds : WorkerRemove(c)

SpecServe == Init /\ [][NextServe]_vars

(***************************************************************************)
(* Claims on the accept loop (SpecServe).                                  *)
(***************************************************************************)
\* the connections that were accepted and are being served
Live == {c \in ConnIds : conns[c] \in {"queued", "running", "polled"}}

\* a connection that arrives while the counter is at or above the limit is
\* dropped
C25_Step ==
    \A c \in ConnIds :
        (/\ conns[c] = "new" /\ conns'[c] # "new"
         /\ server.concurrent >= max_concurrent_connections)
        => conns'[c] = "dropped"

\* while the accept loop runs, the counter is the number of connections
\* being served, and that number is within the limit
C25_State ==
    server.at # "returned" =>
        /\ Cardinality(Live) <= max_concurrent_connections
        /\ server.concurrent = Cardinality(Live)

\* C25: no more than max_concurrent_connections connections are served at a
\* time: a connection that arrives while the counter is at or above the limit
\* is dropped, and the counter counts a connection from its acceptance until
\* its thread ends
C25_ConnectionLimit == [][C25_Step]_vars /\ []C25_State

(***************************************************************************)
(* The Config builder (config.rs): each method takes the Config by value   *)
(* and returns the changed one.                                            *)
(***************************************************************************)
\* the arguments the program passes to the builder methods
ConfigValues == {7, 9}

\* a builder method was called: the history of the call, nothing else moves
Called(name, n) ==
    /\ UNCHANGED << lvars, dvars, server, conns, hp, he, app >>
    /\ config_call' = [name |-> name, n |-> n]

\* Config::max_concurrent_connections
ConfigMaxConcurrentConnections ==
    \E n \in ConfigValues :
        /\ config' = [config EXCEPT !.max_concurrent_connections = n]
        /\ Called("max_concurrent_connections", n)

\* Config::max_concurrent_streams
ConfigMaxConcurrentStreams ==
    \E n \in ConfigValues :
        /\ config' = [config EXCEPT !.max_concurrent_streams = n]
        /\ Called("max_concurrent_streams", n)

\* Config::max_frame_size
ConfigMaxFrameSize ==
    \E n \in ConfigValues :
        /\ config' = [config EXCEPT !.max_frame_size = n]
        /\ Called("max_frame_size", n)

\* Config::max_flush_requests
ConfigMaxFlushRequests ==
    \E n \in ConfigValues :
        /\ config' = [config EXCEPT !.max_flush_requests = n]
        /\ Called("max_flush_requests", n)

\* Config::max_flush_size: `Self { max_frame_size: n, ..self }`
ConfigMaxFlushSize ==
    \E n \in ConfigValues :
        /\ config' = [config EXCEPT !.max_frame_size = n]
        /\ Called("max_flush_size", n)

\* Config::idle_timeout
ConfigIdleTimeout ==
    \E d \in ConfigValues :
        /\ config' = [config EXCEPT !.idle_timeout = d]
        /\ Called("idle_timeout", d)

\* Config::write_timeout
ConfigWriteTimeout ==
    \E d \in ConfigValues :
        /\ config' = [config EXCEPT !.write_timeout = d]
        /\ Called("write_timeout", d)

NextConfig ==
    \/ ConfigMaxConcurrentConnections
    \/ ConfigMaxConcurrentStreams
    \/ ConfigMaxFrameSize
    \/ ConfigMaxFlushRequests
    \/ ConfigMaxFlushSize
    \/ ConfigIdleTimeout
    \/ ConfigWriteTimeout

SpecConfig == Init /\ [][NextConfig]_vars

(***************************************************************************)
(* Claims on the Config builder (SpecConfig).                              *)
(***************************************************************************)
C26_Step ==
    (<< config, config_call >>' # << config, config_call >>) =>
        \A f \in DOMAIN config :
            config'[f] = IF f = config_call'.name THEN config_call'.n ELSE config[f]

\* C26: a builder method sets the field it is named after to its argument
\* and leaves every other field as it was
C26_BuilderSetsOwnField == [][C26_Step]_vars

(***************************************************************************)
(* A Decoder fed with the header blocks of a connection, each block a run  *)
(* of header field representations.                                        *)
(***************************************************************************)
\* header blocks of a connection
MaxBlocks == 2

\* header fields of a block
MaxFields == 2

\* the header field representations the peer sends, with what they are by
\* RFC 7541: a literal with incremental indexing (:path "a" by the static
\* name 4, :authority "x" by the static name 1), indexed fields (dynamic 62,
\* 63, 64 and static 2), a literal without indexing (:path "b"), dynamic
\* table size updates (to 0, one octet, and to 4096, three octets), and
\* malformed ones: a varint cut off after its prefix and after a continuation
\* octet, a varint that goes on after 5 octets, a string longer than the block
HpackFields ==
    << [bytes |-> <<68, 1, 97>>,  kind |-> "insert",  path |-> Some(<<97>>)],
       [bytes |-> <<65, 1, 120>>, kind |-> "insert",  path |-> NoneV],
       [bytes |-> <<190>>,        kind |-> "dynamic", k |-> 0],
       [bytes |-> <<191>>,        kind |-> "dynamic", k |-> 1],
       [bytes |-> <<192>>,        kind |-> "dynamic", k |-> 2],
       [bytes |-> <<130>>,        kind |-> "static"],
       [bytes |-> <<4, 1, 98>>,   kind |-> "literal", path |-> Some(<<98>>)],
       [bytes |-> <<32>>,         kind |-> "size"],
       [bytes |-> <<63, 225, 31>>, kind |-> "size"],
       [bytes |-> <<255>>,        kind |-> "bad"],
       [bytes |-> <<255, 128>>,   kind |-> "bad"],
       [bytes |-> <<255, 128, 128, 128, 128, 128, 1>>, kind |-> "bad"],
       [bytes |-> <<4, 5, 97>>,   kind |-> "bad"] >>

\* a block is a run of fields, named by their place in HpackFields
HpackBlocks ==
    UNION {[1..n -> 1..Len(HpackFields)] : n \in 1..MaxFields}

\* the bytes of a block
RECURSIVE BlockBytes(_)
BlockBytes(block) ==
    IF block = <<>> THEN <<>> ELSE HpackFields[block[1]].bytes \o BlockBytes(Tail(block))

\* hpack_decoder.find_path(headers_buf)? for the next HEADERS frame of the
\* connection; an error, a block without a path included, ends the connection
HpackDecoded(block, r) ==
    hp' = [dec    |-> r.dec,
           was    |-> hp.dec,
           blocks |-> Append(hp.blocks, block),
           res    |-> Append(hp.res, r.res)]

HpackDecode ==
    /\ UNCHANGED << lvars, dvars, server, conns, config, config_call, he, app >>
    /\ Len(hp.blocks) < MaxBlocks
    /\ \A i \in 1..Len(hp.res) : hp.res[i].tag # "Err"
    /\ \E block \in HpackBlocks : HpackDecoded(block, find_path(hp.dec, BlockBytes(block)))

NextHpack == HpackDecode

SpecHpack == Init /\ [][NextHpack]_vars

(***************************************************************************)
(* The reference: an RFC 7541 dynamic table fed the same fields, each      *)
(* entry remembering whether it was inserted as a :path field and, if so,  *)
(* the cache index the path was given (the number of paths handed to the   *)
(* caller as Plain before it).                                             *)
(***************************************************************************)
Ref_new == [ok |-> TRUE, table |-> <<>>, minted |-> 0, seen |-> <<>>, fp |-> PathErr("NoPathSet")]

RefSeen(st, path) == \E i \in 1..Len(st.seen) : st.seen[i][1] = path

RefSeenAs(st, path) == st.seen[CHOOSE i \in 1..Len(st.seen) : st.seen[i][1] = path][2]

\* the k-th most recently inserted entry, k = 0 the newest
RefEntry(st, k) == st.table[Len(st.table) - k]

RefField(st, f) ==
    CASE f.kind = "insert" /\ f.path # NoneV ->
             [st EXCEPT !.table = Append(@, Some(st.minted)),
                        !.minted = @ + 1,
                        !.fp = Plain(f.path[1])]
      [] f.kind = "insert" /\ f.path = NoneV ->
             [st EXCEPT !.table = Append(@, NoneV)]
      [] f.kind = "dynamic" ->
             IF f.k >= Len(st.table)
             THEN [st EXCEPT !.ok = FALSE, !.fp = PathErr("invalid dynamic table index")]
             ELSE IF RefEntry(st, f.k) # NoneV
             THEN [st EXCEPT !.fp = Cached(RefEntry(st, f.k)[1])]
             ELSE st
      [] f.kind = "literal" ->
             IF RefSeen(st, f.path[1])
             THEN [st EXCEPT !.fp = Cached(RefSeenAs(st, f.path[1]))]
             ELSE [st EXCEPT !.seen = Append(@, <<f.path[1], st.minted>>),
                             !.minted = @ + 1,
                             !.fp = Plain(f.path[1])]
      [] f.kind \in {"static", "size"} -> st
      [] OTHER -> [st EXCEPT !.ok = FALSE, !.fp = PathErr("InvalidHpack")]

\* the fields of a block, from the state st
RECURSIVE RefFields(_, _)
RefFields(st, block) ==
    IF block = <<>> \/ ~st.ok THEN st
    ELSE RefFields(RefField(st, HpackFields[block[1]]), Tail(block))

\* a block starts without a path; a block that ends without one ends the
\* connection
RefBlock(st, block) ==
    LET end == RefFields([st EXCEPT !.fp = PathErr("NoPathSet")], block)
    IN  IF end.fp.tag = "Err" THEN [end EXCEPT !.ok = FALSE] ELSE end

RECURSIVE RefBlocks(_, _)
RefBlocks(st, blocks) ==
    IF blocks = <<>> \/ ~st.ok THEN st
    ELSE RefBlocks(RefBlock(st, blocks[1]), Tail(blocks))

\* the reference before the last field of the i-th block of the connection
RefBefore(i) ==
    RefFields([RefBlocks(Ref_new, SubSeq(hp.blocks, 1, i - 1)) EXCEPT !.fp = PathErr("NoPathSet")],
              SubSeq(hp.blocks[i], 1, Len(hp.blocks[i]) - 1))

LastField(i) == HpackFields[hp.blocks[i][Len(hp.blocks[i])]]

\* the i-th block ends in an Indexed field 62+k with k smaller than the
\* number of entries inserted so far
EndsIndexed(i) ==
    /\ RefBefore(i).ok
    /\ LastField(i).kind = "dynamic"
    /\ LastField(i).k < Len(RefBefore(i).table)

\* the entries of the reference table after the history
RefInserted == Len(RefBlocks(Ref_new, hp.blocks).table)

\* C27: an Indexed field 62+k, k smaller than the number of literals with
\* indexing so far, resolves to the k-th most recently inserted entry of a
\* reference dynamic table: the path result is Cached(c) exactly when that
\* entry was inserted as a :path field with cache index c, and is otherwise
\* what it was before the field; and every literal with indexing, :path or
\* not, has added exactly one entry
C27_IndexedAsReference ==
    /\ \A i \in 1..Len(hp.blocks) :
           EndsIndexed(i) => hp.res[i] = RefField(RefBefore(i), LastField(i)).fp
    /\ RefBlocks(Ref_new, hp.blocks).ok => Len(hp.dec.dynamic_table) = RefInserted

\* the messages of Error::InvalidHpack in hpack_decoder.rs
InvalidHpack ==
    {"invalid Representation", "invalid dynamic table index", "invalid integer",
     "need more", "integer overflow"}

\* the reference rejects the i-th block as malformed: a field that is cut off
\* or too long, or an Indexed field beyond the dynamic table
Malformed(i) ==
    LET end == RefFields([RefBlocks(Ref_new, SubSeq(hp.blocks, 1, i - 1))
                              EXCEPT !.fp = PathErr("NoPathSet")],
                         hp.blocks[i])
    IN  ~end.ok

\* C28: a malformed header block (a varint cut off by the end of the block, a
\* varint longer than 5 bytes, a string literal longer than the rest of the
\* block, an Indexed field beyond the dynamic table) yields an InvalidHpack
\* error value, never a read beyond the block
C28_MalformedIsInvalidHpack ==
    \A i \in 1..Len(hp.blocks) :
        Malformed(i) => hp.res[i].tag = "Err" /\ hp.res[i].err \in InvalidHpack

\* the last block is a dynamic table size update followed by one more field
AfterSizeUpdate ==
    /\ hp.blocks # <<>>
    /\ Len(hp.blocks[Len(hp.blocks)]) = 2
    /\ HpackFields[hp.blocks[Len(hp.blocks)][1]].kind = "size"

\* C29: a dynamic table size update of any value takes exactly the bytes of
\* its varint and changes no decoder state: the field after it is parsed from
\* the right offset, so the block leaves the decoder and the path result as
\* the field alone would
C29_SizeUpdateSkipped ==
    AfterSizeUpdate =>
        [dec |-> hp.dec, res |-> hp.res[Len(hp.res)]]
            = find_path(hp.was, HpackFields[hp.blocks[Len(hp.blocks)][2]].bytes)

(***************************************************************************)
(* An Encoder that encodes the replies and the statuses of a connection    *)
(* into one output, in any order.                                          *)
(***************************************************************************)
\* replies and statuses encoded
MaxEncodings == 3

\* status codes: one with an entry in CODES, one formatted, and 0
StatusCodes == {0, 3, 17}

\* grpc-message texts: "" and "x"
StatusMessages == {<<>>, <<120>>}

Encoded(call, e) ==
    he' = [enc    |-> e.enc,
           output |-> he.output \o e.bytes,
           calls  |-> Append(he.calls, call)]

\* http2::build_response(stream_id, reply, hpack_encoder, output)
EncodeReply ==
    /\ UNCHANGED << lvars, dvars, server, conns, config, config_call, hp, app >>
    /\ Len(he.calls) < MaxEncodings
    /\ Encoded([ok |-> TRUE], build_response(1, <<7>>, he.enc))

\* http2::build_status(stream_id, status, hpack_encoder, output)
EncodeStatus ==
    /\ UNCHANGED << lvars, dvars, server, conns, config, config_call, hp, app >>
    /\ Len(he.calls) < MaxEncodings
    /\ \E code \in StatusCodes, message \in StatusMessages :
           Encoded([ok |-> FALSE, code |-> code, message |-> message],
                   build_status(1, [code |-> code, message |-> message], he.enc))

NextEncoder == EncodeReply \/ EncodeStatus

SpecEncoder == Init /\ [][NextEncoder]_vars

(***************************************************************************)
(* The reference: a peer that reads the frames of the output and decodes   *)
(* the header blocks of the HEADERS frames with an RFC 7541 decoder and    *)
(* its dynamic table (newest entry first).                                 *)
(***************************************************************************)
\* ":status"
StrStatus == <<58, 115, 116, 97, 116, 117, 115>>

\* "200"
Str200 == <<50, 48, 48>>

\* the continuation octets of an integer, from buf[at]
RECURSIVE PeerIntTail(_, _, _)
PeerIntTail(buf, at, shift) ==
    IF at > Len(buf) THEN [ok |-> FALSE, val |-> 0, adv |-> 0]
    ELSE IF buf[at] < 128 THEN [ok |-> TRUE, val |-> buf[at] * (2 ^ shift), adv |-> at]
    ELSE LET t == PeerIntTail(buf, at + 1, shift + 7)
         IN  [ok |-> t.ok, val |-> (buf[at] % 128) * (2 ^ shift) + t.val, adv |-> t.adv]

\* an integer with an n-bit prefix (RFC 7541, 5.1)
PeerInt(buf, n) ==
    IF buf = <<>> THEN [ok |-> FALSE, val |-> 0, adv |-> 0]
    ELSE IF buf[1] % (2 ^ n) < (2 ^ n) - 1 THEN [ok |-> TRUE, val |-> buf[1] % (2 ^ n), adv |-> 1]
    ELSE LET t == PeerIntTail(buf, 2, 0)
         IN  [ok |-> t.ok, val |-> (2 ^ n) - 1 + t.val, adv |-> t.adv]

\* a string literal without Huffman coding (RFC 7541, 5.2)
PeerStrOf(buf, n) ==
    IF ~n.ok \/ buf[1] >= 128 \/ n.adv + n.val > Len(buf)
    THEN [ok |-> FALSE, str |-> <<>>, adv |-> 0]
    ELSE [ok |-> TRUE, str |-> SubSeq(buf, n.adv + 1, n.adv + n.val), adv |-> n.adv + n.val]

PeerStr(buf) == PeerStrOf(buf, PeerInt(buf, 7))

Peer_new == [ok |-> TRUE, table |-> <<>>, headers |-> <<>>]

PeerBad(st) == [st |-> [st EXCEPT !.ok = FALSE], adv |-> 1]

\* the entry an index designates: the static entry 8, or a dynamic entry
PeerEntry(st, index) ==
    IF index = 8 THEN << StrStatus, Str200 >>
    ELSE IF index >= 62 /\ index - 61 <= Len(st.table) THEN st.table[index - 61]
    ELSE << <<>>, <<>> >>

\* the header is added to the list of the block being decoded
PeerHeader(st, header) ==
    [st EXCEPT !.headers[Len(st.headers)] = Append(@, header)]

PeerInsert(st, header) ==
    [PeerHeader(st, header) EXCEPT !.table = <<header>> \o @]

PeerIndexed(st, n) ==
    IF ~n.ok THEN PeerBad(st)
    ELSE [st |-> PeerHeader(st, PeerEntry(st, n.val)), adv |-> n.adv]

\* a literal with a new name: name and value strings after the first octet
PeerNewName(st, name, value, indexing) ==
    IF ~name.ok \/ ~value.ok THEN PeerBad(st)
    ELSE [st  |-> IF indexing THEN PeerInsert(st, << name.str, value.str >>)
                  ELSE PeerHeader(st, << name.str, value.str >>),
          adv |-> 1 + name.adv + value.adv]

\* a literal with an indexed name n
PeerIndexedName(st, n, value, indexing) ==
    IF ~value.ok THEN PeerBad(st)
    ELSE [st  |-> IF indexing THEN PeerInsert(st, << PeerEntry(st, n.val)[1], value.str >>)
                  ELSE PeerHeader(st, << PeerEntry(st, n.val)[1], value.str >>),
          adv |-> n.adv + value.adv]

PeerLiteral(st, buf, n, indexing) ==
    IF ~n.ok THEN PeerBad(st)
    ELSE IF n.val = 0
    THEN PeerNewName(st, PeerStr(Drop(buf, 1)),
                     PeerStr(Drop(buf, 1 + PeerStr(Drop(buf, 1)).adv)), indexing)
    ELSE PeerIndexedName(st, n, PeerStr(Drop(buf, n.adv)), indexing)

PeerSizeUpdate(st, n) == IF ~n.ok THEN PeerBad(st) ELSE [st |-> st, adv |-> n.adv]

\* one header field representation (RFC 7541, 6)
PeerField(st, buf) ==
    IF buf[1] >= 128 THEN PeerIndexed(st, PeerInt(buf, 7))
    ELSE IF buf[1] >= 64 THEN PeerLiteral(st, buf, PeerInt(buf, 6), TRUE)
    ELSE IF buf[1] >= 32 THEN PeerSizeUpdate(st, PeerInt(buf, 5))
    ELSE PeerLiteral(st, buf, PeerInt(buf, 4), FALSE)

RECURSIVE PeerBlock(_, _)
PeerBlockNext(buf, step) ==
    IF ~step.st.ok THEN step.st ELSE PeerBlock(step.st, Drop(buf, step.adv))

PeerBlock(st, buf) ==
    IF buf = <<>> THEN st ELSE PeerBlockNext(buf, PeerField(st, buf))

PeerFrameLen(buf) == buf[1] * 65536 + buf[2] * 256 + buf[3]

\* the frames of the output: the block of every HEADERS frame is decoded
RECURSIVE PeerFrames(_, _)
PeerFrames(st, buf) ==
    IF buf = <<>> \/ ~st.ok THEN st
    ELSE IF Len(buf) < 9 \/ Len(buf) < 9 + PeerFrameLen(buf) THEN [st EXCEPT !.ok = FALSE]
    ELSE IF buf[4] = 1
    THEN PeerFrames(PeerBlock([st EXCEPT !.headers = Append(@, <<>>)],
                              SubSeq(buf, 10, 9 + PeerFrameLen(buf))),
                    Drop(buf, 9 + PeerFrameLen(buf)))
    ELSE PeerFrames(st, Drop(buf, 9 + PeerFrameLen(buf)))

\* the decimal text of a status code
Decimal(code) ==
    CASE code = 0 -> <<48>> [] code = 3 -> <<51>> [] code = 17 -> <<49, 55>>

\* the header lists the encoder means to send for a reply (headers, then
\* trailers) and for a status
Intended(call) ==
    IF call.ok
    THEN << << << StrStatus, Str200 >>, << StrContentType, StrApplicationGrpc >> >>,
            << << StrGrpcStatus, <<48>> >> >> >>
    ELSE << << << StrStatus, Str200 >>, << StrContentType, StrApplicationGrpc >>,
               << StrGrpcStatus, Decimal(call.code) >>,
               << StrGrpcMessage, call.message >> >> >>

RECURSIVE IntendedAll(_)
IntendedAll(calls) ==
    IF calls = <<>> THEN <<>> ELSE Intended(calls[1]) \o IntendedAll(Tail(calls))

\* the entries of the peer's table with the given name
PeerEntries(st, name) == {i \in 1..Len(st.table) : st.table[i][1] = name}

\* C30, in every state: the peer that decodes the output with a reference
\* dynamic table reads every header as the encoder meant it, the indexed
\* content-type, the indexed grpc-status: 0 and the indexed name of a
\* non-zero grpc-status included; content-type and grpc-status: 0 are each
\* inserted at most once; and encoding a non-zero status or a grpc-message
\* leaves the encoder as it was
C30_State ==
    /\ PeerFrames(Peer_new, he.output).ok
    /\ PeerFrames(Peer_new, he.output).headers = IntendedAll(he.calls)
    /\ Cardinality(PeerEntries(PeerFrames(Peer_new, he.output), StrContentType)) <= 1
    /\ Cardinality(PeerEntries(PeerFrames(Peer_new, he.output), StrGrpcStatus)) <= 1
    /\ Len(PeerFrames(Peer_new, he.output).table) = he.enc.dynamic_table_size
    /\ \A code \in StatusCodes : encode_grpc_status_nonzero(he.enc, code).enc = he.enc
    /\ \A message \in StatusMessages : encode_grpc_message(he.enc, message).enc = he.enc

\* C30, in every step: a status changes the encoder only by inserting
\* content-type, when it was not inserted before; once both headers are
\* inserted no encoding changes the encoder
C30_Step ==
    /\ Len(he'.calls) = Len(he.calls) + 1 /\ ~he'.calls[Len(he'.calls)].ok
           => he'.enc = encode_content_type(he.enc).enc
    /\ he.enc.rank_content_type # NoneV /\ he.enc.rank_grpc_status_zero # NoneV
           => he'.enc = he.enc

\* C30: every dynamic-table reference the encoder emits designates, in a
\* reference dynamic table fed the same output, the entry the encoder
\* intended; each of the two headers is inserted at most once; encoding a
\* non-zero status or a grpc-message never changes the encoder state
C30_EncoderAsReference == [][C30_Step]_vars /\ []C30_State

\* a status encoded after a reply and a reply after that: the output holds
\* the indexed name 62 of grpc-status, Indexed 63 for content-type and
\* Indexed 62 for grpc-status: 0
C30_Witness ==
    /\ Len(he.calls) = 3
    /\ he.calls[1].ok /\ ~he.calls[2].ok /\ he.calls[3].ok
    /\ he.calls[2].code = 17
    /\ he.enc.rank_content_type = Some(1) /\ he.enc.rank_grpc_status_zero = Some(2)

(***************************************************************************)
(* The HPACK integer codec: encode_int of the reply encoder against        *)
(* decode_int of the request decoder.                                      *)
(***************************************************************************)
\* prefix sizes
PrefixSizes == 1..8

\* integers below 2^28 around the places where the encoding gets one byte
\* longer: the full prefix of every size, and 7, 14, 21 bits past it
VarintValues ==
    {0, 2 ^ 28 - 1}
        \cup UNION {{2 ^ p - 2, 2 ^ p - 1, 2 ^ p,
                     2 ^ p + 126, 2 ^ p + 127,
                     2 ^ p + 16382, 2 ^ p + 16383,
                     2 ^ p + 2097150, 2 ^ p + 2097151} : p \in PrefixSizes}

\* the bits of the first byte above an n-bit prefix: none, or the one next
\* to the prefix (0x80 with 7 bits, 0x40 with 6, 0x20 with 5)
FirstBytes(p) == IF p = 8 THEN {0} ELSE {0, 2 ^ p}

\* decode_int(encode_int(n, p, first_byte), p)
VarintRoundTrip ==
    /\ UNCHANGED << lvars, dvars, server, conns, config, config_call, hp, he >>
    /\ app.op = "none"
    /\ \E n \in VarintValues, p \in PrefixSizes :
           \E first_byte \in FirstBytes(p) :
               app' = [op  |-> "varint", n |-> n, p |-> p,
                       buf |-> encode_int(n, p, first_byte),
                       got |-> decode_int(encode_int(n, p, first_byte), p)]

NextVarint == VarintRoundTrip

SpecVarint == Init /\ [][NextVarint]_vars

\* C31: decode_int(encode_int(n, p), p) gives n and the number of bytes that
\* encode_int produced, for n below 2^28 and prefix sizes 1 to 8
C31_VarintRoundTrip ==
    app.op = "varint" => app.got = IntOk(app.n, Len(app.buf))

\* the largest value with the smallest prefix: five bytes, the most
\* decode_int takes
C31_Witness ==
    /\ app.op = "varint"
    /\ app.n = 2 ^ 28 - 1 /\ app.p = 1
    /\ Len(app.buf) = 5
    /\ app.got.ok

(***************************************************************************)
(* The Huffman codec by its tables (huffman/mod.rs).  A decoder state is   *)
(* the node of the code tree it stands for, the bits read since the last   *)
(* symbol; state 0 is the root, <<>>.  The tables are generated from the   *)
(* code, and are given here for the symbols of HuffCode.                   *)
(***************************************************************************)
\* the EOS code: 30 ones
HuffEos == [i \in 1..30 |-> 1]

\* a node that stands for the part of the tree below symbols not in HuffSyms
HuffOutside == <<2>>

HuffIsCode(bits) == \E sym \in HuffSyms : HuffCode(sym) = bits

HuffSymOf(bits) == CHOOSE sym \in HuffSyms : HuffCode(sym) = bits

\* an inner node of the tree
HuffInner(bits) ==
    \/ \E sym \in HuffSyms : IsPrefix(bits, HuffCode(sym)) /\ bits # HuffCode(sym)
    \/ IsPrefix(bits, HuffEos) /\ bits # HuffEos

AllOnes(bits) == \A i \in 1..Len(bits) : bits[i] = 1

\* the entry reached from a node by the bits of a nibble: at most one symbol
\* ends within 4 bits
RECURSIVE huff_walk(_, _, _)
huff_walk(node, nibble, e) ==
    IF e.error \/ node = HuffOutside \/ nibble = <<>>
    THEN [e EXCEPT !.next = node,
                   !.maybe_eos = node # <<>> /\ node # HuffOutside /\ Len(node) < 8
                                     /\ AllOnes(node)]
    ELSE IF Append(node, nibble[1]) = HuffEos
    THEN huff_walk(node, <<>>, [e EXCEPT !.error = TRUE])
    ELSE IF HuffIsCode(Append(node, nibble[1]))
    THEN huff_walk(<<>>, Tail(nibble),
                   [e EXCEPT !.decoded = TRUE, !.byte = HuffSymOf(Append(node, nibble[1]))])
    ELSE IF HuffInner(Append(node, nibble[1]))
    THEN huff_walk(Append(node, nibble[1]), Tail(nibble), e)
    ELSE huff_walk(HuffOutside, <<>>, e)

\* DECODE_TABLE[state][input]: (next-state, byte, flags)
DECODE_TABLE(state, nib) ==
    huff_walk(state, SubSeq(ByteBits(nib), 5, 8),
              [next |-> state, byte |-> 0, decoded |-> FALSE, maybe_eos |-> FALSE,
               error |-> FALSE])

\* the value of a bit string
RECURSIVE BitsValue(_)
BitsValue(bits) ==
    IF bits = <<>> THEN 0 ELSE 2 * BitsValue(SubSeq(bits, 1, Len(bits) - 1)) + bits[Len(bits)]

\* ENCODE_TABLE[b]: (nbits, code)
ENCODE_TABLE(b) == << Len(HuffCode(b)), BitsValue(HuffCode(b)) >>

\* Decoder::new
HuffDecoder_new == [state |-> <<>>, maybe_eos |-> FALSE]

\* Decoder::decode4: the decoder afterwards and the byte, if one is decoded
decode4_entry(st, e) ==
    IF e.error THEN [ok |-> FALSE, st |-> st, ret |-> NoneV]
    ELSE [ok  |-> TRUE,
          st  |-> [state |-> e.next, maybe_eos |-> e.maybe_eos],
          ret |-> IF e.decoded THEN Some(e.byte) ELSE NoneV]

decode4(st, nib) == decode4_entry(st, DECODE_TABLE(st.state, nib))

\* a final state that is only the one between two symbols
is_final_no_padding(st) == st.state = <<>>

\* Decoder::is_final
is_final(st) == st.state = <<>> \/ st.maybe_eos

\* huffman::decode: the two nibbles of every byte, high one first; error says
\* that a decode4 returned the error, st is the decoder at the end
RECURSIVE decode_bytes(_, _, _)
decode_low(src, buf, hi) ==
    IF ~hi.ok THEN [ok |-> FALSE, error |-> TRUE, out |-> buf, st |-> hi.st]
    ELSE LET lo == decode4(hi.st, src[1] % 16)
         IN  IF ~lo.ok THEN [ok |-> FALSE, error |-> TRUE, out |-> buf \o hi.ret, st |-> lo.st]
             ELSE decode_bytes(Tail(src), buf \o hi.ret \o lo.ret, lo.st)

decode_bytes(src, buf, st) ==
    IF src = <<>> THEN [ok |-> is_final(st), error |-> FALSE, out |-> buf, st |-> st]
    ELSE decode_low(src, buf, decode4(st, src[1] \div 16))

decode(src) == decode_bytes(src, <<>>, HuffDecoder_new)

\* a u64 as its bits, bit 0 the lowest
U64Zero == [i \in 0..63 |-> 0]

\* bits |= code << shift, for a code of at most 30 bits
or_shifted(bits, code, shift) ==
    [i \in 0..63 |->
        IF i >= shift /\ i - shift < 30 /\ (code \div (2 ^ (i - shift))) % 2 = 1
        THEN 1 ELSE bits[i]]

\* (bits >> 32) as u8
byte_32(bits) ==
    bits[32] + 2 * bits[33] + 4 * bits[34] + 8 * bits[35]
        + 16 * bits[36] + 32 * bits[37] + 64 * bits[38] + 128 * bits[39]

\* bits <<= 8
shl_8(bits) == [i \in 0..63 |-> IF i >= 8 THEN bits[i - 8] ELSE 0]

\* bits |= (1 << bits_left) - 1
or_low_ones(bits, bits_left) == [i \in 0..63 |-> IF i < bits_left THEN 1 ELSE bits[i]]

\* huffman::encode: `while bits_left <= 32`, then the rest of src
RECURSIVE encode_loop(_, _, _, _)
RECURSIVE encode_flush(_, _, _, _)
encode_flush(src, bits, bits_left, dst) ==
    IF bits_left <= 32
    THEN encode_flush(src, shl_8(bits), bits_left + 8, Append(dst, byte_32(bits)))
    ELSE encode_loop(src, bits, bits_left, dst)

encode_loop(src, bits, bits_left, dst) ==
    IF src = <<>>
    THEN IF bits_left # 40 THEN Append(dst, byte_32(or_low_ones(bits, bits_left))) ELSE dst
    ELSE encode_flush(Tail(src),
                      or_shifted(bits, ENCODE_TABLE(src[1])[2],
                                 bits_left - ENCODE_TABLE(src[1])[1]),
                      bits_left - ENCODE_TABLE(src[1])[1], dst)

encode(src) == encode_loop(src, U64Zero, 40, <<>>)

\* symbols of a string to encode
MaxHuffStr == 2

\* bytes of an input to decode
MaxHuffBytes == 4

HuffStrings == UNION {[1..n -> HuffSyms] : n \in 0..MaxHuffStr}

\* input bytes: 'a' and the start of '/', 'a' and padding, the end of '?' and
\* padding, '&', eight ones
HuffBytes == {27, 31, 63, 248, 255}

\* the decoder stays within the tree of HuffSyms
RECURSIVE HuffInside(_, _)
HuffInside(src, state) ==
    IF state = HuffOutside THEN FALSE
    ELSE IF src = <<>> THEN TRUE
    ELSE LET hi == DECODE_TABLE(state, src[1] \div 16)
         IN  hi.error \/ (hi.next # HuffOutside /\
                 LET lo == DECODE_TABLE(hi.next, src[1] % 16)
                 IN  lo.error \/ HuffInside(Tail(src), lo.next))

HuffInputs ==
    {src \in UNION {[1..n -> HuffBytes] : n \in 1..MaxHuffBytes} : HuffInside(src, <<>>)}

\* huffman::decode(huffman::encode(s))
HuffmanRoundTrip ==
    /\ UNCHANGED << lvars, dvars, server, conns, config, config_call, hp, he >>
    /\ app.op = "none"
    /\ \E str \in HuffStrings :
           app' = [op |-> "huffman", str |-> str, src |-> encode(str),
                   got |-> decode(encode(str))]

\* huffman::decode(src)
HuffmanDecode ==
    /\ UNCHANGED << lvars, dvars, server, conns, config, config_call, hp, he >>
    /\ app.op = "none"
    /\ \E src \in HuffInputs :
           app' = [op |-> "decode", str |-> <<>>, src |-> src, got |-> decode(src)]

NextHuffman == HuffmanRoundTrip \/ HuffmanDecode

SpecHuffman == Init /\ [][NextHuffman]_vars

\* what is left of the bits of src after its last whole code word
RECURSIVE HuffRest(_)
HuffRest(bits) ==
    IF \E sym \in HuffSyms : IsPrefix(HuffCode(sym), bits)
    THEN HuffRest(Drop(bits, Len(HuffCode(CHOOSE x \in HuffSyms : IsPrefix(HuffCode(x), bits)))))
    ELSE bits

\* C32: decode(encode(s)) = s; decode accepts exactly when the state after
\* the last nibble is 0 or maybe_eos is set, that is when what follows the
\* last code word is fewer than 8 bits of the EOS code; any other ending and
\* any ERROR transition is rejected
C32_HuffmanCodec ==
    /\ app.op = "huffman" => app.got.ok /\ app.got.out = app.str
    /\ app.op \in {"huffman", "decode"} =>
           /\ app.got.ok <=> ~app.got.error
                                 /\ (app.got.st.state = <<>> \/ app.got.st.maybe_eos)
           /\ app.got.ok <=> Len(HuffRest(BitsOf(app.src))) < 8
                                 /\ AllOnes(HuffRest(BitsOf(app.src)))
           /\ app.got.ok => app.got.out = huffman_decode(app.src).out

\* "?a" is encoded with one bit of padding and decoded back; the decoder ends
\* in a state other than 0 with maybe_eos set
C32_Witness ==
    /\ app.op = "huffman"
    /\ app.str = <<63, 97>>
    /\ app.got.ok /\ app.got.out = <<63, 97>>
    /\ app.got.st.state # <<>> /\ app.got.st.maybe_eos

(***************************************************************************)
(* The frame header codec: Frame::parse on a buffer, and Frame::build_head *)
(* of what it parsed.                                                      *)
(***************************************************************************)
\* payload bytes in a buffer
MaxPayload == 3

\* length fields: 0, 2, 256, 65536
FrameLens == {<<0, 0, 0>>, <<0, 0, 2>>, <<0, 1, 0>>, <<1, 0, 0>>}

\* type bytes: DATA, HEADERS, SETTINGS, CONTINUATION, and two that are no
\* frame kind
FrameTypes == {0, 1, 4, 9, 10, 200}

FrameFlags == {0, 5, 255}

\* stream identifiers, with and without the reserved bit
FrameIds ==
    {<<0, 0, 0, 0>>, <<0, 0, 0, 1>>, <<127, 255, 255, 255>>,
     <<128, 0, 0, 1>>, <<255, 255, 255, 255>>}

FrameHeads ==
    {len \o <<type, flags>> \o id :
        len \in FrameLens, type \in FrameTypes, flags \in FrameFlags, id \in FrameIds}

\* buffers: a header, whole or cut, and some payload bytes after a whole one
FrameBufs ==
    {head \o [i \in 1..n |-> 6 + i] : head \in FrameHeads, n \in 0..MaxPayload}
        \cup {SubSeq(head, 1, n) : head \in FrameHeads, n \in 0..8}

\* Frame::parse(buf), and build_head of the frame it returns
FrameParse ==
    /\ UNCHANGED << lvars, dvars, server, conns, config, config_call, hp, he >>
    /\ app.op = "none"
    /\ \E buf \in FrameBufs :
           app' = [op |-> "parse", buf |-> buf, got |-> Frame_parse(buf),
                   head |-> IF Frame_parse(buf) = NoneV THEN <<>>
                            ELSE build_head(Frame_parse(buf)[1].len, Frame_parse(buf)[1].kind,
                                            Frame_parse(buf)[1].flags,
                                            Frame_parse(buf)[1].stream_id)]

NextFrame == FrameParse

SpecFrame == Init /\ [][NextFrame]_vars

\* the 24-bit length field of a buffer of at least 3 bytes
LengthField(buf) == buf[1] * 65536 + buf[2] * 256 + buf[3]

\* C33: a frame returned by Frame::parse has a payload of the length of the
\* 24-bit length field and a stream_id without the reserved high bit
\* (stream_id >> 31 == 0: as a u32 held in 32 signed bits, not negative), and
\* parse returns none exactly when the buffer holds fewer than 9 + length bytes
C33_ParsedFrame ==
    app.op = "parse" =>
        /\ app.got # NoneV =>
               /\ Len(app.got[1].payload) = LengthField(app.buf)
               /\ app.got[1].len = LengthField(app.buf)
               /\ app.got[1].stream_id >= 0
        /\ app.got = NoneV <=>
               Len(app.buf) < 9 \/ Len(app.buf) < 9 + LengthField(app.buf)

\* a whole header was accepted
Accepted == app.op = "parse" /\ app.got # NoneV

\* C34 as stated: for every 9-byte header that Frame::parse accepts,
\* build_head of the parsed length, kind, flags and stream_id gives the same
\* 9 bytes
C34_HeaderRoundTrip == Accepted => app.head = SubSeq(app.buf, 1, 9)

\* C34, amended: the same for every accepted header whose type byte is one
\* of the ten frame kinds, 0 to 9; a type byte above 9 is parsed as Unknown
\* and rebuilt as the byte 10
C34_KnownKindRoundTrip ==
    Accepted =>
        /\ app.buf[4] <= 9 => app.head = SubSeq(app.buf, 1, 9)
        /\ app.buf[4] > 9 =>
               app.head = SubSeq(app.buf, 1, 3) \o <<10>> \o SubSeq(app.buf, 5, 9)

\* a CONTINUATION header with all flags, two payload bytes and the largest
\* stream identifier is accepted and rebuilt
C34_Witness ==
    /\ Accepted
    /\ SubSeq(app.buf, 1, 9) = <<0, 0, 2, 9, 255, 127, 255, 255, 255>>
    /\ app.got[1].kind = KindContinuation
    /\ app.head = SubSeq(app.buf, 1, 9)

(***************************************************************************)
(* Order of the requests one worker channel carries (dispatch_server.rs    *)
(* handle_call, DispatchRequest::handle, response_routine).                *)
(***************************************************************************)
\* the request was put on its worker's channel: it was routed to a worker and
\* try_send did not fail
Accepted_by(r) ==
    /\ r.to # 0
    /\ ~\E p \in produced : p.by = "failure" /\ p.resp.stream_id = r.stream_id

\* a DispatchResponse of stream s is in the channel
InChan(chan, s) == \E k \in 1..Len(chan) : chan[k].stream_id = s

\* worker w holds the response of stream s, not yet sent
Sending(w, s) == worker_resp[w] # NoneV /\ worker_resp[w][1].stream_id = s

\* the response of the accepted request r has left the response channel, or
\* was dropped by a send that failed
Delivered(r) ==
    /\ r.stream_id \in executed
    /\ ~Sending(r.to, r.stream_id)
    /\ ~InChan(resp_chan, r.stream_id)

\* the pairs of requests of the connection, in the order their DATA frames
\* arrived, that were put on the same worker channel
SameChannelPairs ==
    { ij \in (1..Len(handed)) \X (1..Len(handed)) :
          /\ ij[1] < ij[2]
          /\ handed[ij[1]].to = handed[ij[2]].to
          /\ Accepted_by(handed[ij[1]])
          /\ Accepted_by(handed[ij[2]]) }

\* the worker executes the later request only when it has executed the
\* earlier one, and the output thread receives the later response only when
\* the earlier one has left the channel
C35_Step ==
    \A ij \in SameChannelPairs :
        LET first  == handed[ij[1]]
            second == handed[ij[2]]
        IN  /\ (second.stream_id \in executed' \ executed)
                => first.stream_id \in executed
            /\ (InChan(resp_chan, second.stream_id) /\ ~InChan(resp_chan', second.stream_id))
                => Delivered(first)

\* the earlier response is never behind the later one on its way
C35_State ==
    \A ij \in SameChannelPairs :
        LET first  == handed[ij[1]]
            second == handed[ij[2]]
        IN  /\ second.stream_id \in executed => first.stream_id \in executed
            /\ InChan(resp_chan, second.stream_id) =>
                   /\ ~Sending(first.to, first.stream_id)
                   /\ \A k \in 1..Len(resp_chan) :
                          resp_chan[k].stream_id = first.stream_id =>
                              \E m \in (k + 1)..Len(resp_chan) :
                                  resp_chan[m].stream_id = second.stream_id

OutputStep ==
    IF out_pc = "build"
    THEN resp_chan' = resp_chan /\ out_pc' \in {"try_recv", "exited"}
    ELSE /\ out_pc \in {"try_recv", "recv"}
         /\ IF resp_chan # <<>>
            THEN resp_chan' = recv(resp_chan).chan /\ out_pc' = "build"
            ELSE /\ resp_chan' = resp_chan
                 /\ IF ~SendersAlive THEN out_pc' = "exited"
                    ELSE out_pc = "try_recv" /\ out_pc' \in {"recv", "exited"}

\* the steps of the output thread are the steps of response_routine
OutputStepIsRoutine == [][(OutTryRecv \/ OutRecv \/ OutBuild) <=> OutputStep]_vars

\* the variables a step of response_routine is known by
ovars == << resp_chan, out_pc >>

DispatchFairness ==
    /\ WF_ovars(OutputStep)
    /\ WF_vars(InputSend)
    /\ \A w \in Workers : WF_vars(WorkerSend(w))

SpecDispatchLive == SpecDispatch /\ DispatchFairness

\* worker w is inside resp_tx.send and the send cannot return yet
WorkerBlocked(w) ==
    /\ worker_resp[w] # NoneV
    /\ send(resp_chan, out_pc # "exited", max_concurrent_streams, worker_resp[w][1]).res
           = "Blocked"

\* the input thread is inside resp_tx.send and the send cannot return yet
InputBlocked ==
    /\ in_pc = "sending"
    /\ send(resp_chan, out_pc # "exited", max_concurrent_streams, in_pending[1]).res
           = "Blocked"

\* while a send waits, the output thread has not ended and its next step is
\* not a wait: it has a response to build or one to take from the channel
SenderCanBeServed ==
    (InputBlocked \/ \E w \in Workers : WorkerBlocked(w)) =>
        \/ out_pc = "build"
        \/ out_pc \in {"try_recv", "recv"} /\ resp_chan # <<>>

\* C36: a worker's send of a response on the bounded response channel of a
\* connection always returns, with the response queued or with the failure
\* that the output thread has gone; so does the input thread's send: no
\* thread of the connection waits for ever on another.
C36_SendsReturn ==
    /\ OutputStepIsRoutine
    /\ []SenderCanBeServed
    /\ \A w \in Workers : (worker_resp[w] # NoneV) ~> (worker_resp[w] = NoneV)
    /\ (in_pc = "sending") ~> (in_pc = "run")

\* a worker is in its send with the response channel at capacity, and the
\* output thread has ended on a failed write: the send fails
C36_Witness ==
    \E w \in Workers :
        /\ worker_resp[w] # NoneV
        /\ Len(resp_chan) >= max_concurrent_streams
        /\ out_pc = "exited"
        /\ dwrite_failed

(***************************************************************************)
(* The live-connection counter (connection.rs serve_with_config,           *)
(* local_server.rs LocalConnection, poll.rs).                              *)
(***************************************************************************)
\* the connections that have been counted and have not ended: a thread runs
\* `handle` for them, or a poll worker holds them in its slab
Counted == {c \in ConnIds : conns[c] \in {"running", "polled"}}

\* a connection that starts to be served adds one to the counter, and one
\* that stops being served, however it ends, takes one from it
C37_Step ==
    \A c \in ConnIds :
        /\ (c \notin Counted /\ c \in Counted') => server'.concurrent = server.concurrent + 1
        /\ (c \in Counted /\ c \notin Counted') => server'.concurrent = server.concurrent - 1

\* while the accept loop runs, the counter is the number of connections
\* being served
C37_State == server.at # "returned" => server.concurrent = Cardinality(Counted)

\* C37: the live-connection counter is incremented once for each accepted
\* connection and decremented once when the connection ends, by any path, a
\* panic of its thread included; the counter is the number of live
\* connections and is 0 when none is live.
C37_CounterIsLive == [][C37_Step]_vars /\ []C37_State

(***************************************************************************)
(* The increment of the WINDOW_UPDATE frames (response_end.rs flush,       *)
(* http2.rs build_window_update, connection.rs DATA arm).                  *)
(***************************************************************************)
\* the largest increment of a WINDOW_UPDATE frame, 2^31 - 1
MaxIncrement == 2147483647

\* the least length of a DATA frame that is answered: the gRPC prefix
GrpcPrefix == 5

\* what the response end has counted and not yet written: a buffer that is
\* not empty holds a response, every response counted stands for a DATA frame
\* of at least 5 bytes, and the frames counted were in the input buffer of
\* the burst
C38_Buffered ==
    /\ resp_end.output # <<>> => resp_end.req_count >= 1
    /\ resp_end.req_data_len >= GrpcPrefix * resp_end.req_count
    /\ resp_end.req_data_len <= max_frame_size
    /\ pc = "parse" => resp_end.req_data_len <= pos

\* C38: every WINDOW_UPDATE frame written has an increment between 1 and
\* 2^31 - 1: a flush writes only when a response is buffered, every buffered
\* response adds the length of a DATA frame of at least 5 bytes, and what is
\* added up before a flush is no more than the input buffer holds, which with
\* the default max_frame_size is far below 2^31, so that `len as u32` keeps
\* the value.
C38_IncrementRange ==
    /\ C38_Buffered
    /\ \A i \in 1..Len(Increments(wire)) :
          /\ Increments(wire)[i] >= GrpcPrefix
          /\ Increments(wire)[i] <= max_frame_size
          /\ Increments(wire)[i] <= MaxIncrement
          /\ build_u32(Increments(wire)[i]) = WindowUpdates(wire)[i].payload
    /\ Config_new.max_frame_size <= MaxIncrement

\* two flushes have each written a WINDOW_UPDATE, for one DATA frame of 5
\* bytes and for one of 6
C38_Witness == Increments(wire) = <<5, 6>> /\ pc = "read"

====
